---------------------------- MODULE Spec2Model ----------------------------
(***************************************************************************)
(* State-machine model of the sensor core (src/src/sensor.c) and of the    *)
(* simulated temperature sensor (src/src/temperature_sensor.c).            *)
(*                                                                         *)
(* Representation choices:                                                 *)
(*  - a uint32_t is a pair <<hi, lo>> of 16-bit limbs, so that arithmetic  *)
(*    modulo 2^32 is exact (the debounce clock wraps inside the modelled   *)
(*    time window);                                                        *)
(*  - a float temperature is an integer number of degrees; the running     *)
(*    mean is an exact fraction <<numerator, denominator>> in lowest       *)
(*    terms, so rounding error is abstracted away;                         *)
(*  - the wall clock advances in ticks of half a second, while time(NULL)  *)
(*    only shows whole seconds;                                            *)
(*  - humidity, dew point and heat index, and the id/name/location         *)
(*    strings do not influence any modelled decision and are left out.     *)
(***************************************************************************)
EXTENDS Integers, Sequences, FiniteSets, TLC

(***************************************************************************)
(* Bounds of the model.                                                    *)
(***************************************************************************)
\* Unix time (seconds) at which the modelled run starts: one second before
\* (uint32_t)time(NULL) * 1000 wraps around 2^32.
StartSec == 1717986918
\* Number of half-second clock ticks in a run.
MaxTicks == 2
\* Cap on the 32-bit counters: reads accepted per Sensor structure, and fresh
\* samples accumulated in one statistics block.
MaxCount == 2
\* Cap on the lines the logger hands to fprintf in a run.
MaxLines == 4
\* Nested rotations the stack has room for.
MaxDepth == 2
\* The enumeration values handed to the string conversions are
\* -MaxEnum .. MaxEnum.
MaxEnum == 20

(***************************************************************************)
(* Program constants.                                                      *)
(***************************************************************************)
\* Stand-in for float.h's FLT_MAX: larger than every temperature of the model.
FLT_MAX == 1000000
\* base_temp of the simulated reading.
BaseTemp == 25

NULL == "NULL"
\* Content of memory that was never written.
INDETERMINATE == "indeterminate"

\* The caller-owned Sensor structures.
Sensors == {"temp_sensor", "aux_sensor"}

(***************************************************************************)
(* uint32_t arithmetic on 16-bit limbs.                                    *)
(***************************************************************************)
Limb == 2^16

U32(n) == <<n \div Limb, n % Limb>>

Nat32(a) == a[1] * Limb + a[2]

Inc32(a) == IF a[2] + 1 < Limb THEN <<a[1], a[2] + 1>>
            ELSE <<(a[1] + 1) % Limb, 0>>

Sub32(a, b) ==
    LET lo == a[2] - b[2]
        borrow == IF lo < 0 THEN 1 ELSE 0
    IN <<(a[1] - b[1] - borrow + 2 * Limb) % Limb, lo + borrow * Limb>>

Lt32(a, b) == a[1] < b[1] \/ (a[1] = b[1] /\ a[2] < b[2])

\* (uint32_t)sec * 1000
Mul1000(sec) ==
    LET sh == (sec \div Limb) % Limb
        sl == sec % Limb
        p  == sl * 1000
    IN <<(sh * 1000 + p \div Limb) % Limb, p % Limb>>

(***************************************************************************)
(* Exact fractions for the running mean.                                   *)
(***************************************************************************)
RECURSIVE Gcd(_, _)
Gcd(a, b) == IF b = 0 THEN a ELSE Gcd(b, a % b)

Abs(x) == IF x < 0 THEN -x ELSE x

Frac(n, d) == LET g == Gcd(Abs(n), d) IN <<n \div g, d \div g>>

RECURSIVE Sum(_)
Sum(s) == IF s = <<>> THEN 0 ELSE Head(s) + Sum(Tail(s))

Range(s) == {s[i] : i \in DOMAIN s}

\* s, sorted ascending, with x added.
RECURSIVE Insert(_, _)
Insert(s, x) ==
    IF s = <<>> THEN <<x>>
    ELSE IF x <= Head(s) THEN <<x>> \o s
    ELSE <<Head(s)>> \o Insert(Tail(s), x)

SeqMin(s) == CHOOSE x \in Range(s) : \A y \in Range(s) : x <= y

SeqMax(s) == CHOOSE x \in Range(s) : \A y \in Range(s) : x >= y

VARIABLES
    wall,           \* wall clock, in half seconds since StartSec
    sensor,         \* the Sensor structures
    private_data,   \* temperature_sensor.c's static private_data (NULL or the block)
    orphaned,       \* a malloc'ed private block is neither reachable nor freed
    samples,        \* history: the fresh samples since the block's stats were last
                    \* seeded, in ascending order
    fresh_wall,     \* history: wall-clock tick of the last fresh sample, -1 if none
    result,         \* the last call: operation, arguments, return value, output
    faulted         \* the process jumped through an indeterminate pointer

vars == <<wall, sensor, private_data, orphaned, samples, fresh_wall, result, faulted>>

\* The logger (src/src/logger.c) and the files it works on.
VARIABLES
    logger_private, \* logger.c's static private_data (NULL or the instance)
    disk,           \* the log files: disk[0] is config.log_file, disk[i] is
                    \* "<log_file>.i"; each is absent or a sequence of lines
    leak,           \* an instance / an open FILE nobody can reach any more
    written,        \* history: number of lines handed to fprintf so far
    log_result,     \* the last logger call: return value, console output,
                    \* number of rotations it ran
    log_faulted     \* the process ran into undefined behaviour in the logger

lvars == <<logger_private, disk, leak, written, log_result, log_faulted>>

\* Callers on several threads, and the string conversions.
VARIABLES
    thread,         \* for each thread: the function it is in, the statement it
                    \* is at and its local variables
    conv            \* the last string conversion: function, argument, result

tvars == <<thread, conv>>


(***************************************************************************)
(* Optional values (a pointer that may be NULL).                           *)
(***************************************************************************)
None == <<>>

Some(x) == <<x>>

IsSome(o) == o # <<>>

Get(o) == o[1]

(***************************************************************************)
(* Inputs.                                                                 *)
(***************************************************************************)
Cfg(lo, hi, alert, critical, offset, rate) ==
    [min_temp |-> lo, max_temp |-> hi, alert_threshold |-> alert,
     critical_threshold |-> critical, calibration_offset |-> offset,
     sampling_rate_ms |-> rate]

\* Two configurations with min_temp < max_temp and sampling_rate_ms > 0.  The
\* simulated samples are 24, 25 and 26 degrees: under Wide they are in range,
\* one between the thresholds, one on the critical threshold, one above it;
\* under Narrow one is below both thresholds and one above max_temp.
Wide == Cfg(0, 50, 23, 25, 0, 1000)

Narrow == Cfg(0, 25, 24, 25, 0, 1500)

\* The configuration of test_error_handling: sampling rate 0, and the range
\* turned over (min_temp > max_temp).
Invalid == Cfg(50, 0, 40, 45, 0, 0)

\* The TemperatureConfig values callers pass.
Configs == {Wide, Narrow, Invalid}

\* rand()-driven variation of the simulated reading, in degrees.
Variations == {-1, 0, 1}

SensorTypes == {"HUMIDITY"}

\* What a caller's SensorData buffer may hold before the call.
RawData ==
    [type : {INDETERMINATE}, value : {99}, is_valid : BOOLEAN,
     error : {"HARDWARE"}, unit : {INDETERMINATE}]

\* A Sensor structure nobody has written yet; its read slot may or may not be zero.
RawSensor(slot) ==
    [inited |-> FALSE, type |-> INDETERMINATE, initialize |-> INDETERMINATE,
     read |-> slot, cleanup |-> INDETERMINATE, last_error |-> INDETERMINATE,
     sample_count |-> U32(0), error_count |-> U32(0)]

(***************************************************************************)
(* The clock.                                                              *)
(***************************************************************************)
\* time(NULL)
time == StartSec + wall \div 2

(***************************************************************************)
(* sensor.c                                                                *)
(***************************************************************************)
default_init == TRUE

\* The switch of sensor_read_data.
default_unit(type) ==
    CASE type = "TEMPERATURE" -> "degC"
      [] type = "HUMIDITY" -> "%"
      [] OTHER -> ""

\* sensor_init with the counters left as they were (a defect
\* C11_SensorInitContract rejects).
sensor_init_keeps_counts(sn, type, id) ==
    IF id = NULL
    THEN [ret |-> FALSE, sensor |-> [sn EXCEPT !.last_error = "INVALID_PARAM"]]
    ELSE [ret |-> TRUE,
          sensor |-> [sn EXCEPT !.inited = TRUE, !.type = type,
                                !.initialize = "default_init",
                                !.cleanup = "default_cleanup",
                                !.last_error = "NONE"]]

\* sensor_init on a present sensor: the return value and the structure afterwards.
sensor_init(sn, type, id) ==
    IF id = NULL
    THEN [ret |-> FALSE, sensor |-> [sn EXCEPT !.last_error = "INVALID_PARAM"]]
    ELSE LET s1 == [sn EXCEPT !.inited = TRUE, !.type = type,
                              !.sample_count = U32(0), !.error_count = U32(0),
                              !.initialize = "default_init",
                              !.cleanup = "default_cleanup",
                              !.last_error = "NONE"]
         IN IF ~default_init
            THEN [ret |-> FALSE, sensor |-> [s1 EXCEPT !.last_error = "INIT_FAILED"]]
            ELSE [ret |-> TRUE, sensor |-> s1]

\* Lines 95-151 of sensor_read_data: what is handed to the read implementation.
stamp(sn, data) ==
    [data EXCEPT !.type = sn.type, !.is_valid = FALSE, !.error = "NONE",
                 !.unit = default_unit(sn.type)]

\* Line 154 of sensor_read_data.
count_sample(sn) == [sn EXCEPT !.sample_count = Inc32(@)]

\* record_outcome with a fixed error code stored instead of the reading's own
\* (a defect C9_ReadBookkeeping rejects).
record_outcome_fixed_error(sn, ok, data) ==
    IF ~ok
    THEN [sn EXCEPT !.last_error = "READ_FAILED", !.error_count = Inc32(@)]
    ELSE [sn EXCEPT !.last_error = "NONE"]

\* Lines 156-163 of sensor_read_data: bookkeeping after the read returned ok/data.
record_outcome(sn, ok, data) ==
    IF ~ok
    THEN [sn EXCEPT !.last_error = data.error, !.error_count = Inc32(@)]
    ELSE [sn EXCEPT !.last_error = "NONE"]

(***************************************************************************)
(* temperature_sensor.c                                                    *)
(***************************************************************************)
\* The statistics as temperature_sensor_init and reset_stats seed them.
seed_stats ==
    [min_value |-> FLT_MAX, max_value |-> -FLT_MAX, avg_value |-> <<0, 1>>,
     std_deviation |-> 0, sample_count |-> U32(0), alert_count |-> U32(0),
     critical_count |-> U32(0)]

\* The block temperature_sensor_init builds from the caller's config.
new_private(config) ==
    [config |-> config, last_reading |-> 0, stats |-> seed_stats,
     last_sample_time |-> U32(0)]

\* update_stats with the maximum tested only when the minimum did not move
\* (a defect C7_Extrema rejects).
update_stats_else_if(stats, value) ==
    LET n == Nat32(stats.sample_count)
        avg == stats.avg_value
    IN [stats EXCEPT
          !.min_value = IF value < @ THEN value ELSE @,
          !.max_value = IF value >= stats.min_value /\ value > @ THEN value ELSE @,
          !.avg_value = Frac(avg[1] * n + value * avg[2], avg[2] * (n + 1)),
          !.sample_count = Inc32(@)]

\* update_stats with sample_count incremented before the mean is updated
\* (a defect C8_Mean rejects).
update_stats_count_first(stats, value) ==
    LET n == Nat32(stats.sample_count) + 1
        avg == stats.avg_value
    IN [stats EXCEPT
          !.min_value = IF value < @ THEN value ELSE @,
          !.max_value = IF value > @ THEN value ELSE @,
          !.avg_value = Frac(avg[1] * n + value * avg[2], avg[2] * (n + 1)),
          !.sample_count = Inc32(@)]

\* update_stats
update_stats(stats, value) ==
    LET n == Nat32(stats.sample_count)
        avg == stats.avg_value
    IN [stats EXCEPT
          !.min_value = IF value < @ THEN value ELSE @,
          !.max_value = IF value > @ THEN value ELSE @,
          !.avg_value = Frac(avg[1] * n + value * avg[2], avg[2] * (n + 1)),
          !.sample_count = Inc32(@)]

\* classify with a sample above alert_threshold treated like a range violation
\* (a defect C6_TwoTiers rejects).
classify_one_tier(pd, data) ==
    IF \/ data.value < pd.config.min_temp
       \/ data.value > pd.config.max_temp
       \/ data.value > pd.config.alert_threshold
    THEN [ret |-> FALSE, data |-> [data EXCEPT !.error = "OUT_OF_RANGE"], pd |-> pd]
    ELSE [ret |-> TRUE, data |-> data, pd |-> pd]

\* Lines 147-167 of temperature_read: range, alert and critical checks of a
\* fresh sample already stored in data.value.
classify(pd, data) ==
    IF data.value < pd.config.min_temp \/ data.value > pd.config.max_temp
    THEN [ret |-> FALSE, data |-> [data EXCEPT !.error = "OUT_OF_RANGE"], pd |-> pd]
    ELSE LET alert == data.value > pd.config.alert_threshold
             critical == data.value > pd.config.critical_threshold
         IN [ret |-> TRUE,
             data |-> [data EXCEPT
                         !.error = IF alert \/ critical THEN "OUT_OF_RANGE" ELSE @],
             pd |-> [pd EXCEPT
                       !.stats.alert_count = IF alert THEN Inc32(@) ELSE @,
                       !.stats.critical_count = IF critical THEN Inc32(@) ELSE @]]

\* Line 101 of temperature_read: the debounce test on 32-bit milliseconds.
debounced(pd, current_time) ==
    Lt32(Sub32(current_time, pd.last_sample_time), U32(pd.config.sampling_rate_ms))

\* Lines 109-145 of temperature_read: take a fresh sample.
fresh_sample(pd, data, variation, current_time) ==
    LET value == BaseTemp + variation + pd.config.calibration_offset
    IN [data |-> [data EXCEPT !.value = value, !.is_valid = TRUE, !.error = "NONE"],
        pd |-> [pd EXCEPT !.last_reading = value,
                          !.stats = update_stats(@, value),
                          !.last_sample_time = current_time]]

\* temperature_read on a present data buffer; pdo is private_data (an option).
temperature_read(pdo, data, variation, current_time) ==
    IF ~IsSome(pdo)
    THEN [ret |-> FALSE, data |-> [data EXCEPT !.error = "INVALID_PARAM"],
          pd |-> pdo, branch |-> "no_private"]
    ELSE IF debounced(Get(pdo), current_time)
    THEN [ret |-> TRUE,
          data |-> [data EXCEPT !.value = Get(pdo).last_reading,
                                !.is_valid = TRUE, !.error = "NONE"],
          pd |-> pdo, branch |-> "debounced"]
    ELSE LET f == fresh_sample(Get(pdo), data, variation, current_time)
             c == classify(f.pd, f.data)
         IN [ret |-> c.ret, data |-> c.data, pd |-> Some(c.pd), branch |-> "fresh"]

\* temperature_sensor_init on a present sensor sn; pdo is private_data before the
\* call, malloc_ok is malloc's outcome.  Line 46 overwrites private_data with
\* what malloc returned, whatever it pointed to (lost: the block is orphaned).
temperature_sensor_init(sn, pdo, id, cfgo, malloc_ok) ==
    IF id = NULL \/ ~IsSome(cfgo)
    THEN [ret |-> FALSE, sensor |-> [sn EXCEPT !.last_error = "INVALID_PARAM"],
          pd |-> pdo, lost |-> FALSE, branch |-> "invalid_param"]
    ELSE LET base == sensor_init(sn, "TEMPERATURE", id)
         IN IF ~base.ret
            THEN [ret |-> FALSE, sensor |-> base.sensor, pd |-> pdo,
                  lost |-> FALSE, branch |-> "init_failed"]
            ELSE IF ~malloc_ok
            THEN [ret |-> FALSE,
                  sensor |-> [base.sensor EXCEPT !.last_error = "MEMORY"],
                  pd |-> None, lost |-> IsSome(pdo), branch |-> "no_memory"]
            ELSE [ret |-> TRUE,
                  sensor |-> [base.sensor EXCEPT !.initialize = "temperature_init",
                                                 !.read = "temperature_read",
                                                 !.cleanup = "temperature_cleanup"],
                  pd |-> Some(new_private(Get(cfgo))),
                  lost |-> IsSome(pdo), branch |-> "constructed"]

\* temperature_cleanup that frees the block and keeps the pointer (a defect
\* C12_CleanupIdempotent rejects: the next call frees the block again).
temperature_cleanup_keeps_pointer(pdo) == pdo

\* temperature_cleanup: private_data afterwards (the block, if any, is freed).
temperature_cleanup(pdo) == IF IsSome(pdo) THEN None ELSE pdo

\* sensor_cleanup on a present sensor: run what the cleanup slot is bound to
\* (default_cleanup does nothing).
sensor_cleanup(sn, pdo) ==
    IF sn.cleanup = "temperature_cleanup" THEN temperature_cleanup(pdo) ELSE pdo

\* temperature_sensor_reset_stats that also rewinds the debounce timer.
temperature_sensor_reset_stats_rewinds(pdo) ==
    IF ~IsSome(pdo) THEN pdo
    ELSE Some([Get(pdo) EXCEPT !.stats = seed_stats, !.last_sample_time = U32(0)])

\* temperature_sensor_reset_stats with a present sensor.
temperature_sensor_reset_stats(pdo) ==
    IF ~IsSome(pdo) THEN pdo
    ELSE Some([Get(pdo) EXCEPT !.stats = seed_stats])

\* temperature_sensor_set_config with a present sensor.
temperature_sensor_set_config(pdo, cfgo) ==
    IF ~IsSome(cfgo) \/ ~IsSome(pdo) THEN pdo
    ELSE Some([Get(pdo) EXCEPT !.config = Get(cfgo)])

(***************************************************************************)
(* sensor_read_data on a present sensor sn and a present buffer data.      *)
(* An indeterminate, non-null read slot is called like any other: the      *)
(* process jumps to an arbitrary address and is lost (fault).              *)
(***************************************************************************)
sensor_read_data(sn, pdo, data, variation, current_time) ==
    IF sn.read = NULL
    THEN [ret |-> FALSE, sensor |-> [sn EXCEPT !.last_error = "INVALID_PARAM"],
          pd |-> pdo, data |-> Some(data), branch |-> "invalid_param",
          fault |-> FALSE]
    ELSE LET d1 == stamp(sn, data)
             s1 == count_sample(sn)
         IN IF sn.read # "temperature_read"
            THEN [ret |-> FALSE, sensor |-> s1, pd |-> pdo, data |-> Some(d1),
                  branch |-> "fault", fault |-> TRUE]
            ELSE LET r == temperature_read(pdo, d1, variation, current_time)
                 IN [ret |-> r.ret, sensor |-> record_outcome(s1, r.ret, r.data),
                     pd |-> r.pd, data |-> Some(r.data), branch |-> r.branch,
                     fault |-> FALSE]

(***************************************************************************)
(* The string conversions of sensor.c.  An enumeration value is an         *)
(* integer; the functions compare it with the table size in size_t, where  *)
(* a negative value is a number above every table size.                    *)
(***************************************************************************)
\* SensorError and SensorType: the last members
SENSOR_ERROR_NONE == 0
SENSOR_ERROR_OUT_OF_RANGE == 4
SENSOR_ERROR_CALIBRATION == 8
SENSOR_TYPE_TEMPERATURE == 0
SENSOR_TYPE_MAGNETIC == 14

error_messages ==
    <<"No error", "Invalid parameter", "Initialization failed",
      "Read operation failed", "Value out of range", "Hardware error",
      "Memory allocation failed", "Communication error", "Calibration error">>

sensor_type_strings ==
    <<"Temperature", "Humidity", "Pressure", "Gas", "Vibration", "Current",
      "Voltage", "Power", "Flow", "Level", "Position", "Speed",
      "Acceleration", "Gyroscope", "Magnetic">>

\* What a read of table[i] past the end of the table may give.
PastTheEnd == "(past the end)"

\* A variant of sensor_error_to_string whose test is one too high.
sensor_error_to_string_off_by_one(error) ==
    IF error < 0 \/ error > Len(error_messages) THEN "Unknown error"
    ELSE IF error = Len(error_messages) THEN PastTheEnd
    ELSE error_messages[error + 1]

sensor_error_to_string(error) ==
    IF error < 0 \/ error >= Len(error_messages) THEN "Unknown error"
    ELSE error_messages[error + 1]

sensor_type_to_string(type) ==
    IF type < 0 \/ type >= Len(sensor_type_strings) THEN "Unknown sensor type"
    ELSE sensor_type_strings[type + 1]

(***************************************************************************)
(* logger.c                                                                *)
(*                                                                         *)
(* A message is its text and its length in characters; a line of a file    *)
(* is the level and text it was formatted from and the bytes it takes.     *)
(* The functions work on a record w of everything a logger call can touch: *)
(* pd (private_data), disk, leak, written, and the call's own outcome:     *)
(* ret, printed (the lines put on the console), rotations and fault.       *)
(***************************************************************************)
\* LogLevel
LOG_LEVEL_DEBUG == 0
LOG_LEVEL_INFO == 1
LOG_LEVEL_ERROR == 3
LOG_LEVEL_CRITICAL == 4

level_strings == <<"DEBUG", "INFO", "WARNING", "ERROR", "CRITICAL">>

logger_level_to_string(level) ==
    IF level < 0 \/ level >= Len(level_strings) THEN "UNKNOWN"
    ELSE level_strings[level + 1]

\* strlen of the level names
StrLen(s) ==
    CASE s = "DEBUG" -> 5
      [] s = "INFO" -> 4
      [] s = "WARNING" -> 7
      [] s = "ERROR" -> 5
      [] s = "CRITICAL" -> 8
      [] OTHER -> 7

\* sizeof(formatted_message)
FormattedSize == 512
\* strlen of a "%Y-%m-%d %H:%M:%S" timestamp
TimestampLen == 19
\* bytes per kilobyte in the rotation threshold
KB == 1024
\* 2^32 / 1024: the max_file_size_kb at which the threshold in bytes wraps
KBWrap == 4194304
\* Highest numeric suffix of a log file name the model keeps track of
\* (default_config.max_files).
MaxIndex == 5

Msg(text, len) == [text |-> text, len |-> len]

\* The logger's own notices.
InitNotice == Msg("Logger initialized", 18)

ShutdownNotice == Msg("Logger shutting down", 20)

RotateNotice == Msg("Log file rotated", 16)

\* Callers' messages: one that fills the format buffer (the line is cut to
\* 511 characters), and one that brings a file holding the init notice and
\* a long line to just below one kilobyte.
LongMsg == Msg("long", 505)

MidMsg == Msg("mid", 454)

LogConfig(min_level, console, file, timestamp, kb, files) ==
    [min_level |-> min_level, log_to_console |-> console, log_to_file |-> file,
     log_timestamp |-> timestamp, log_sensor_data |-> TRUE,
     max_file_size_kb |-> kb, max_files |-> files]

default_config == LogConfig(LOG_LEVEL_INFO, TRUE, TRUE, TRUE, 1024, 5)

\* Console and file, rotation at one kilobyte, two files kept.
TwoFiles == LogConfig(LOG_LEVEL_INFO, TRUE, TRUE, FALSE, 1, 2)

\* The same with max_files = 1.
OneFile == LogConfig(LOG_LEVEL_INFO, TRUE, TRUE, FALSE, 1, 1)

\* File only, errors only: the logger's INFO notices are below min_level.
ErrorsOnly == LogConfig(LOG_LEVEL_ERROR, FALSE, TRUE, FALSE, 1, 2)

\* No file logging.
ConsoleOnly == LogConfig(LOG_LEVEL_INFO, TRUE, FALSE, FALSE, 1, 2)

\* A threshold of 4 GB + 1 KB.
WrappedSize == LogConfig(LOG_LEVEL_INFO, TRUE, TRUE, FALSE, KBWrap + 1, 2)

\* A threshold of zero bytes.
ZeroSize == LogConfig(LOG_LEVEL_INFO, TRUE, TRUE, FALSE, 0, 2)

LogConfigs == {TwoFiles, OneFile, ErrorsOnly, ConsoleOnly}

\* Lines 141-155 of logger_log: the formatted line.
formatted_message(config, level, msg) ==
    LET prefix == IF config.log_timestamp THEN TimestampLen + 3 ELSE 0
        n == prefix + StrLen(logger_level_to_string(level)) + 3 + msg.len
        len == IF n < FormattedSize THEN n ELSE FormattedSize - 1
    IN [level |-> level, text |-> msg.text, bytes |-> len + 1]

\* st_size of a file
RECURSIVE Bytes(_)
Bytes(content) ==
    IF content = <<>> THEN 0 ELSE Head(content).bytes + Bytes(Tail(content))

Indexes == 0 .. MaxIndex

\* The files that exist.
Files(d) == {i \in Indexes : IsSome(d[i])}

\* fprintf + fflush on the handle open on config.log_file
append_line(d, line) ==
    [d EXCEPT ![0] = Some((IF IsSome(@) THEN Get(@) ELSE <<>>) \o <<line>>)]

\* A variant of the loop that moves every file up by one and removes none.
rotate_files_keep_all(d, max_files, i) ==
    [j \in Indexes |-> IF j = 0 THEN None ELSE d[j - 1]]

\* Lines 260-283 of logger_rotate_log_file: the loop, from index i down to 0.
RECURSIVE rotate_files(_, _, _)
rotate_files(d, max_files, i) ==
    IF i < 0 THEN d
    ELSE LET d1 == IF i = max_files - 1
                   THEN [d EXCEPT ![i] = None]
                   ELSE IF IsSome(d[i])
                   THEN [d EXCEPT ![i + 1] = d[i], ![i] = None]
                   ELSE d
         IN rotate_files(d1, max_files, i - 1)

\* The instance logger_init builds.
new_logger(config) ==
    [config |-> config, log_file |-> NULL, current_file_size |-> 0,
     file_count |-> 0]

\* What the operating system does to a call: malloc, fopen and fprintf may fail.
Env(malloc_ok, fopen_ok, write_ok) ==
    [malloc_ok |-> malloc_ok, fopen_ok |-> fopen_ok, write_ok |-> write_ok]

\* A variant of the test of line 124 that lets every level through.
log_refused_any_level(pdo, level, mo) == ~IsSome(pdo) \/ ~IsSome(mo)

\* Line 124 of logger_log: the call is refused.
log_refused(pdo, level, mo) ==
    \/ ~IsSome(pdo)
    \/ ~IsSome(mo)
    \/ level < Get(pdo).config.min_level

\* Line 171 of logger_log: current_file_size >= max_file_size_kb * 1024, both
\* sides uint32_t.  The product is taken modulo 2^32, which makes it
\* (kb mod 2^22) * 1024; size reaches a multiple of 1024 exactly when its
\* whole kilobytes reach the multiplier.
over_threshold(size, kb) == size \div KB >= kb % KBWrap

\* A variant of the reopening that leaves the size counter alone.
reopened_keeps_count(inst) == [inst EXCEPT !.log_file = "FILE"]

\* Lines 286-288 of logger_rotate_log_file: the base file is open again.
reopened(inst) == [inst EXCEPT !.log_file = "FILE", !.current_file_size = 0]

\* logger_log and logger_rotate_log_file call each other; depth is how many
\* nested rotations the stack still has room for.
RECURSIVE logger_log(_, _, _, _, _)
RECURSIVE logger_rotate_log_file(_, _, _)

\* logger_log; mo is the message (absent when NULL).  The return value of
\* fprintf is not looked at: a failed write is counted like a successful one.
logger_log(w, level, mo, env, depth) ==
    IF log_refused(w.pd, level, mo)
    THEN [w EXCEPT !.ret = FALSE]
    ELSE LET inst == Get(w.pd)
             line == formatted_message(inst.config, level, Get(mo))
             w1 == IF inst.config.log_to_console
                   THEN [w EXCEPT !.printed = Append(@, line)]
                   ELSE w
         IN IF inst.config.log_to_file /\ inst.log_file # NULL
            THEN LET size == inst.current_file_size + line.bytes
                     w2 == [w1 EXCEPT
                              !.disk = IF env.write_ok THEN append_line(@, line)
                                       ELSE @,
                              !.written = @ + 1,
                              !.pd = Some([inst EXCEPT !.current_file_size = size])]
                 IN IF over_threshold(size, inst.config.max_file_size_kb)
                    THEN [logger_rotate_log_file(w2, env, depth) EXCEPT !.ret = TRUE]
                    ELSE [w2 EXCEPT !.ret = TRUE]
            ELSE [w1 EXCEPT !.ret = TRUE]

\* logger_rotate_log_file
logger_rotate_log_file(w, env, depth) ==
    IF ~IsSome(w.pd) THEN w
    ELSE IF Get(w.pd).log_file = NULL THEN w
    ELSE IF depth = 0 THEN [w EXCEPT !.fault = TRUE]
    ELSE LET inst == Get(w.pd)
             w1 == [w EXCEPT
                      !.disk = rotate_files(@, inst.config.max_files,
                                            inst.config.max_files - 1),
                      !.rotations = @ + 1]
         IN IF ~env.fopen_ok
            THEN [w1 EXCEPT !.pd = Some([inst EXCEPT !.log_file = NULL])]
            ELSE logger_log([w1 EXCEPT
                               !.disk[0] = Some(<<>>),
                               !.pd = Some(reopened(inst))],
                            LOG_LEVEL_INFO, Some(RotateNotice), env, depth - 1)

\* logger_init; cfgo is the config argument (absent when NULL).  Line 50
\* overwrites private_data with what malloc returned: an instance that was
\* there, and the FILE it had open, can no longer be reached.
logger_init(w, cfgo, env) ==
    LET w0 == [w EXCEPT
                 !.leak.instance = @ \/ IsSome(w.pd),
                 !.leak.handle = @ \/ (IsSome(w.pd) /\ Get(w.pd).log_file # NULL)]
        config == IF IsSome(cfgo) THEN Get(cfgo) ELSE default_config
    IN IF ~env.malloc_ok
       THEN [w0 EXCEPT !.pd = None, !.ret = FALSE]
       ELSE IF ~config.log_to_file
       THEN [logger_log([w0 EXCEPT !.pd = Some(new_logger(config))],
                        LOG_LEVEL_INFO, Some(InitNotice), env, MaxDepth)
               EXCEPT !.ret = TRUE]
       ELSE IF ~env.fopen_ok
       THEN [w0 EXCEPT !.pd = None, !.ret = FALSE]
       ELSE LET d == IF IsSome(w.disk[0]) THEN w.disk
                     ELSE [w.disk EXCEPT ![0] = Some(<<>>)]
                inst == [new_logger(config) EXCEPT
                           !.log_file = "FILE",
                           !.current_file_size = Bytes(Get(d[0])) \div KB]
            IN [logger_log([w0 EXCEPT !.disk = d, !.pd = Some(inst)],
                           LOG_LEVEL_INFO, Some(InitNotice), env, MaxDepth)
                  EXCEPT !.ret = TRUE]

\* logger_cleanup.  The shutdown notice may rotate the file; when the
\* rotation cannot reopen it, log_file is NULL by the time line 114 hands it
\* to fclose.
logger_cleanup(w, env) ==
    IF ~IsSome(w.pd) THEN w
    ELSE IF Get(w.pd).log_file = NULL THEN [w EXCEPT !.pd = None]
    ELSE LET w1 == logger_log(w, LOG_LEVEL_INFO, Some(ShutdownNotice), env, MaxDepth)
         IN IF w1.fault \/ Get(w1.pd).log_file = NULL
            THEN [w1 EXCEPT !.fault = TRUE]
            ELSE [w1 EXCEPT !.pd = None]

\* logger_set_config
logger_set_config(w, cfgo) ==
    IF ~IsSome(w.pd) \/ ~IsSome(cfgo) THEN w
    ELSE [w EXCEPT !.pd = Some([Get(@) EXCEPT !.config = Get(cfgo)])]

\* No logger call has been made yet.
NoCall == [op |-> "none", ret |-> TRUE, printed |-> <<>>, rotations |-> 0]

\* The logger before logger_init, in an empty log directory.
LoggerStart ==
    /\ logger_private = None
    /\ disk = [i \in Indexes |-> None]
    /\ leak = [instance |-> FALSE, handle |-> FALSE]
    /\ written = 0
    /\ log_result = NoCall
    /\ log_faulted = FALSE

(***************************************************************************)
(* The state machine: one action per public operation.                     *)
(***************************************************************************)
\* The threads of the process.
Threads == {"t1", "t2"}

\* A thread that is in none of the functions.
Idle == [pc |-> "idle"]

\* No conversion has been made yet.
NoConversion == [fn |-> "none", arg |-> 0, out |-> ""]

\* Every thread is outside the library.
OneCaller ==
    /\ thread = [t \in Threads |-> Idle]
    /\ conv = NoConversion

\* What the last call handed back: its return value and the SensorData buffer
\* after it; branch names the path the call took.
Res(op, ret, branch, data) ==
    [op |-> op, ret |-> ret, branch |-> branch, data |-> data]

\* A void function hands nothing back.
Void == Res("void", TRUE, "none", None)

\* (uint32_t)time(NULL) * 1000
current_time == Mul1000(time)

Init ==
    /\ wall = 0
    /\ \E slot \in {NULL, INDETERMINATE} : sensor = [s \in Sensors |-> RawSensor(slot)]
    /\ private_data = None
    /\ orphaned = FALSE
    /\ samples = <<>>
    /\ fresh_wall = -1
    /\ result = Void
    /\ faulted = FALSE
    /\ LoggerStart
    /\ OneCaller

Tick ==
    /\ ~faulted
    /\ wall < MaxTicks
    /\ wall' = wall + 1
    /\ UNCHANGED <<sensor, private_data, orphaned, samples, fresh_wall, result, faulted>>
    /\ UNCHANGED <<lvars, tvars>>

SensorInit(s, type, id) ==
    /\ ~faulted
    /\ IF s = NULL
       THEN /\ result' = Res("sensor_init", FALSE, "invalid_param", None)
            /\ UNCHANGED sensor
       ELSE LET r == sensor_init(sensor[s], type, id)
            IN /\ sensor' = [sensor EXCEPT ![s] = r.sensor]
               /\ result' = Res("sensor_init", r.ret,
                                IF r.ret THEN "initialized" ELSE "invalid_param",
                                None)
    /\ UNCHANGED <<wall, private_data, orphaned, samples, fresh_wall, faulted>>
    /\ UNCHANGED <<lvars, tvars>>

TemperatureSensorInit(s, id, cfgo, malloc_ok) ==
    /\ ~faulted
    /\ IF s = NULL
       THEN /\ result' = Res("temperature_sensor_init", FALSE, "invalid_param",
                             None)
            /\ UNCHANGED <<sensor, private_data, orphaned, samples, fresh_wall>>
       ELSE LET r == temperature_sensor_init(sensor[s], private_data, id, cfgo,
                                             malloc_ok)
                rebuilt == r.branch \in {"no_memory", "constructed"}
            IN /\ sensor' = [sensor EXCEPT ![s] = r.sensor]
               /\ private_data' = r.pd
               /\ orphaned' = (orphaned \/ r.lost)
               /\ samples' = IF rebuilt THEN <<>> ELSE samples
               /\ fresh_wall' = IF rebuilt THEN -1 ELSE fresh_wall
               /\ result' = Res("temperature_sensor_init", r.ret, r.branch, None)
    /\ UNCHANGED <<wall, faulted>>
    /\ UNCHANGED <<lvars, tvars>>

SensorReadData(s, datao, variation) ==
    /\ ~faulted
    /\ IF s = NULL
       THEN /\ result' = Res("sensor_read_data", FALSE, "invalid_param", datao)
            /\ UNCHANGED <<sensor, private_data, samples, fresh_wall, faulted>>
       ELSE /\ sensor[s].inited
            /\ Nat32(sensor[s].sample_count) < MaxCount
            /\ IsSome(private_data) =>
                   Nat32(Get(private_data).stats.sample_count) < MaxCount
            /\ IF ~IsSome(datao)
               THEN /\ sensor' = [sensor EXCEPT ![s].last_error = "INVALID_PARAM"]
                    /\ result' = Res("sensor_read_data", FALSE, "invalid_param",
                                     datao)
                    /\ UNCHANGED <<private_data, samples, fresh_wall, faulted>>
               ELSE LET r == sensor_read_data(sensor[s], private_data, Get(datao),
                                              variation, current_time)
                    IN /\ sensor' = [sensor EXCEPT ![s] = r.sensor]
                       /\ private_data' = r.pd
                       /\ samples' = IF r.branch = "fresh"
                                     THEN Insert(samples, Get(r.data).value)
                                     ELSE samples
                       /\ fresh_wall' = IF r.branch = "fresh" THEN wall ELSE fresh_wall
                       /\ faulted' = r.fault
                       /\ result' = Res("sensor_read_data", r.ret, r.branch, r.data)
    /\ UNCHANGED <<wall, orphaned>>
    /\ UNCHANGED <<lvars, tvars>>

TemperatureSensorCleanup(s) ==
    /\ ~faulted
    /\ IF s = NULL
       THEN /\ result' = Void
            /\ UNCHANGED <<private_data, samples, fresh_wall>>
       ELSE /\ sensor[s].inited
            /\ LET pd == sensor_cleanup(sensor[s], private_data)
                   freed == pd # private_data
               IN /\ private_data' = pd
                  /\ samples' = IF freed THEN <<>> ELSE samples
                  /\ fresh_wall' = IF freed THEN -1 ELSE fresh_wall
                  /\ result' = Res("temperature_sensor_cleanup", TRUE,
                                   IF freed THEN "freed" ELSE "nothing_to_free",
                                   None)
    /\ UNCHANGED <<wall, sensor, orphaned, faulted>>
    /\ UNCHANGED <<lvars, tvars>>

TemperatureSensorResetStats(s) ==
    /\ ~faulted
    /\ LET applied == s # NULL /\ IsSome(private_data)
       IN /\ private_data' = IF s = NULL THEN private_data
                             ELSE temperature_sensor_reset_stats(private_data)
          /\ samples' = IF applied THEN <<>> ELSE samples
          /\ result' = Void
    /\ UNCHANGED <<wall, sensor, orphaned, fresh_wall, faulted>>
    /\ UNCHANGED <<lvars, tvars>>

TemperatureSensorSetConfig(s, cfgo) ==
    /\ ~faulted
    /\ LET applied == s # NULL /\ IsSome(cfgo) /\ IsSome(private_data)
       IN /\ private_data' = IF s = NULL THEN private_data
                             ELSE temperature_sensor_set_config(private_data, cfgo)
          /\ result' = Void
    /\ UNCHANGED <<wall, sensor, orphaned, samples, fresh_wall, faulted>>
    /\ UNCHANGED <<lvars, tvars>>

\* The structure the callers of Spec work with.
TheSensor == "temp_sensor"

\* Argument lists: every combination of present arguments, and each argument
\* absent (NULL) in turn.
SensorInitArgs ==
    {<<TheSensor, type, "TEMP001">> : type \in SensorTypes}
        \cup {<<TheSensor, "HUMIDITY", NULL>>}

TemperatureSensorInitArgs ==
    {<<TheSensor, "TEMP001", Some(c), ok>> : c \in Configs, ok \in BOOLEAN}
        \cup {<<TheSensor, NULL, Some(c), TRUE>> : c \in {Wide}}
        \cup {<<TheSensor, "TEMP001", None, TRUE>>}

SensorReadDataArgs ==
    {<<TheSensor, Some(d), v>> : d \in RawData, v \in Variations}
        \cup {<<TheSensor, None, 0>>}

SetConfigArgs ==
    {<<TheSensor, Some(c)>> : c \in Configs}
        \cup {<<TheSensor, None>>}

SensorArgs == {TheSensor}

Next ==
    \/ Tick
    \/ \E a \in SensorInitArgs : SensorInit(a[1], a[2], a[3])
    \/ \E a \in TemperatureSensorInitArgs :
          TemperatureSensorInit(a[1], a[2], a[3], a[4])
    \/ \E a \in SensorReadDataArgs : SensorReadData(a[1], a[2], a[3])
    \/ \E s \in SensorArgs : TemperatureSensorCleanup(s)
    \/ \E s \in SensorArgs : TemperatureSensorResetStats(s)
    \/ \E a \in SetConfigArgs : TemperatureSensorSetConfig(a[1], a[2])

Spec == Init /\ [][Next]_vars

(***************************************************************************)
(* The logger's state machine: one action per public function of logger.h. *)
(***************************************************************************)
\* What a logger call starts from.
World ==
    [pd |-> logger_private, disk |-> disk, leak |-> leak, written |-> written,
     printed |-> <<>>, rotations |-> 0, fault |-> FALSE, ret |-> TRUE]

\* The call op is over and left w.
Return(op, w) ==
    /\ logger_private' = w.pd
    /\ disk' = w.disk
    /\ leak' = w.leak
    /\ written' = w.written
    /\ log_result' = [op |-> op, ret |-> w.ret, printed |-> w.printed,
                      rotations |-> w.rotations]
    /\ log_faulted' = w.fault
    /\ UNCHANGED <<vars, tvars>>

LoggerInit(cfgo, env) ==
    /\ ~log_faulted
    /\ written < MaxLines
    /\ Return("logger_init", logger_init(World, cfgo, env))

LoggerCleanup(env) ==
    /\ ~log_faulted
    /\ written < MaxLines
    /\ Return("logger_cleanup", logger_cleanup(World, env))

LoggerLog(level, mo, env) ==
    /\ ~log_faulted
    /\ written < MaxLines
    /\ Return("logger_log", logger_log(World, level, mo, env, MaxDepth))

LoggerRotateLogFile(env) ==
    /\ ~log_faulted
    /\ written < MaxLines
    /\ Return("logger_rotate_log_file", logger_rotate_log_file(World, env, MaxDepth))

LoggerSetConfig(cfgo) ==
    /\ ~log_faulted
    /\ Return("logger_set_config", logger_set_config(World, cfgo))

\* The operating system's answers.
AllOk == Env(TRUE, TRUE, TRUE)

NoMemory == Env(FALSE, TRUE, TRUE)

NoFile == Env(TRUE, FALSE, TRUE)

WriteFails == Env(TRUE, TRUE, FALSE)

\* Argument lists of the logger calls.
LoggerInitArgs ==
    {<<Some(c), env>> : c \in LogConfigs, env \in {AllOk, NoFile}}
        \cup {<<Some(TwoFiles), NoMemory>>, <<None, AllOk>>}

LoggerLogArgs ==
    {<<level, Some(LongMsg), AllOk>> :
        level \in {LOG_LEVEL_DEBUG, LOG_LEVEL_INFO, LOG_LEVEL_ERROR}}
        \cup {<<LOG_LEVEL_INFO, Some(MidMsg), AllOk>>}
        \cup {<<LOG_LEVEL_INFO, Some(LongMsg), env>> : env \in {NoFile, WriteFails}}
        \cup {<<LOG_LEVEL_INFO, None, AllOk>>}

LoggerSetConfigArgs == {Some(ErrorsOnly), None}

LoggerNext ==
    \/ \E a \in LoggerInitArgs : LoggerInit(a[1], a[2])
    \/ \E env \in {AllOk, NoFile} : LoggerCleanup(env)
    \/ \E a \in LoggerLogArgs : LoggerLog(a[1], a[2], a[3])
    \/ \E env \in {AllOk, NoFile} : LoggerRotateLogFile(env)
    \/ \E cfgo \in LoggerSetConfigArgs : LoggerSetConfig(cfgo)

\* The process before its first logger call; no sensor is in use.
LoggerBoot ==
    /\ wall = 0
    /\ sensor = [s \in Sensors |-> RawSensor(NULL)]
    /\ private_data = None
    /\ orphaned = FALSE
    /\ samples = <<>>
    /\ fresh_wall = -1
    /\ result = Void
    /\ faulted = FALSE
    /\ LoggerStart
    /\ OneCaller

LoggerSpec == LoggerBoot /\ [][LoggerNext]_lvars

(***************************************************************************)
(* logger_log called from several threads.  logger.c takes no lock: a      *)
(* thread runs logger_log statement by statement, and between two of its   *)
(* statements another thread may run its own, or a whole logger_cleanup or *)
(* logger_rotate_log_file.                                                 *)
(***************************************************************************)
\* Thread t moves to th; the logger's state becomes pd, d, n lines handed to
\* fprintf, and the process has faulted or not.
ThreadStep(t, th, pd, d, n, fault) ==
    /\ thread' = [thread EXCEPT ![t] = th]
    /\ logger_private' = pd
    /\ disk' = d
    /\ written' = n
    /\ log_faulted' = fault
    /\ UNCHANGED <<leak, log_result, conv, vars>>

\* Thread t does not get past this statement: private_data was freed, or
\* the FILE was closed, under its feet.
ThreadFault(t) == ThreadStep(t, thread[t], logger_private, disk, written, TRUE)

\* Lines 123-160 of logger_log: the test of line 124, the formatting and the
\* console.
LogEnter(t, level, mo) ==
    /\ ~log_faulted
    /\ written < MaxLines
    /\ thread[t].pc = "idle"
    /\ ~log_refused(logger_private, level, mo)
    /\ ThreadStep(t,
                  [pc |-> "file_test",
                   line |-> formatted_message(Get(logger_private).config,
                                              level, Get(mo))],
                  logger_private, disk, written, FALSE)

\* Line 163
LogFileTest(t) ==
    /\ ~log_faulted
    /\ thread[t].pc = "file_test"
    /\ IF ~IsSome(logger_private) THEN ThreadFault(t)
       ELSE LET inst == Get(logger_private)
            IN ThreadStep(t,
                          IF inst.config.log_to_file /\ inst.log_file # NULL
                          THEN [thread[t] EXCEPT !.pc = "fprintf"]
                          ELSE Idle,
                          logger_private, disk, written, FALSE)

\* Lines 164-165: fprintf and fflush lock the FILE, a line goes out whole.
LogFprintf(t) ==
    /\ ~log_faulted
    /\ thread[t].pc = "fprintf"
    /\ IF ~IsSome(logger_private) THEN ThreadFault(t)
       ELSE IF Get(logger_private).log_file = NULL THEN ThreadFault(t)
       ELSE ThreadStep(t, [thread[t] EXCEPT !.pc = "size_load"],
                       logger_private, append_line(disk, thread[t].line),
                       written + 1, FALSE)

\* Line 168, the read of current_file_size
LogSizeLoad(t) ==
    /\ ~log_faulted
    /\ thread[t].pc = "size_load"
    /\ IF ~IsSome(logger_private) THEN ThreadFault(t)
       ELSE ThreadStep(t,
                       [pc |-> "size_store", line |-> thread[t].line,
                        size |-> Get(logger_private).current_file_size],
                       logger_private, disk, written, FALSE)

\* Line 168, the write of current_file_size
LogSizeStore(t) ==
    /\ ~log_faulted
    /\ thread[t].pc = "size_store"
    /\ IF ~IsSome(logger_private) THEN ThreadFault(t)
       ELSE ThreadStep(t, [pc |-> "size_test"],
                       Some([Get(logger_private) EXCEPT
                               !.current_file_size =
                                   thread[t].size + thread[t].line.bytes]),
                       disk, written, FALSE)

\* Lines 171-176: the threshold test and the rotation it may start.
LogSizeTest(t) ==
    /\ ~log_faulted
    /\ thread[t].pc = "size_test"
    /\ IF ~IsSome(logger_private) THEN ThreadFault(t)
       ELSE LET inst == Get(logger_private)
                w == IF over_threshold(inst.current_file_size,
                                       inst.config.max_file_size_kb)
                     THEN logger_rotate_log_file(World, Env(TRUE, TRUE, TRUE),
                                                 MaxDepth)
                     ELSE World
            IN ThreadStep(t, Idle, w.pd, w.disk, w.written, w.fault)

\* A thread that is in no logger function.
IdleThread(t) == thread[t].pc = "idle"

\* The program starts the logger, in an empty log directory, before it
\* starts its threads.
ThreadsInit ==
    /\ logger_private = None
    /\ Files(disk) = {}
    /\ \A t \in Threads : IdleThread(t)
    /\ LoggerInit(Some(TwoFiles), Env(TRUE, TRUE, TRUE))

\* A thread calls logger_cleanup.
ThreadsCleanup ==
    /\ logger_private # None
    /\ \E t \in Threads : IdleThread(t)
    /\ LoggerCleanup(Env(TRUE, TRUE, TRUE))

\* A thread calls logger_rotate_log_file.
ThreadsRotate ==
    /\ logger_private # None
    /\ \E t \in Threads : IdleThread(t)
    /\ LoggerRotateLogFile(Env(TRUE, TRUE, TRUE))

LoggerThreadsNext ==
    \/ ThreadsInit
    \/ ThreadsCleanup
    \/ ThreadsRotate
    \/ \E t \in Threads : LogEnter(t, LOG_LEVEL_INFO, Some(LongMsg))
    \/ \E t \in Threads : LogFileTest(t)
    \/ \E t \in Threads : LogFprintf(t)
    \/ \E t \in Threads : LogSizeLoad(t)
    \/ \E t \in Threads : LogSizeStore(t)
    \/ \E t \in Threads : LogSizeTest(t)

LoggerThreadsSpec == LoggerBoot /\ [][LoggerThreadsNext]_<<lvars, tvars>>

(***************************************************************************)
(* The string conversions, called with any integer as the enumeration      *)
(* value.                                                                  *)
(***************************************************************************)
\* The values handed to the conversions.
EnumValues == -MaxEnum .. MaxEnum

\* The call fn(arg) gave out.
Converted(fn, arg, out) ==
    /\ conv' = [fn |-> fn, arg |-> arg, out |-> out]
    /\ UNCHANGED <<thread, vars, lvars>>

SensorErrorToString(error) ==
    Converted("sensor_error_to_string", error, sensor_error_to_string(error))

SensorTypeToString(type) ==
    Converted("sensor_type_to_string", type, sensor_type_to_string(type))

LoggerLevelToString(level) ==
    Converted("logger_level_to_string", level, logger_level_to_string(level))

ConvNext ==
    \/ \E error \in EnumValues : SensorErrorToString(error)
    \/ \E type \in EnumValues : SensorTypeToString(type)
    \/ \E level \in EnumValues : LoggerLevelToString(level)

ConvSpec == LoggerBoot /\ [][ConvNext]_conv

(***************************************************************************)
(* Fresh samples and temperature_sensor_get_stats on several threads.      *)
(* temperature_sensor.c takes no lock: a thread runs update_stats          *)
(* statement by statement, and between two of its statements another       *)
(* thread may run its own or copy the statistics.                          *)
(***************************************************************************)
\* Thread t moves to th and the statistics become stats.
StatsStep(t, th, stats) ==
    /\ thread' = [thread EXCEPT ![t] = th]
    /\ private_data' = Some([Get(private_data) EXCEPT !.stats = stats])
    /\ UNCHANGED <<wall, sensor, orphaned, fresh_wall, result, faulted, conv,
                   lvars>>

\* The stats of the sensor.
TheStats == Get(private_data).stats

\* Line 141 of temperature_read: a fresh sample with this variation enters
\* update_stats.
StatsEnter(t, variation) ==
    /\ IsSome(private_data)
    /\ thread[t].pc = "idle"
    /\ Len(samples) < MaxCount
    /\ LET value == BaseTemp + variation + Get(private_data).config.calibration_offset
       IN /\ samples' = Insert(samples, value)
          /\ StatsStep(t, [pc |-> "min_max", value |-> value], TheStats)

\* Lines 236-241 of update_stats
StatsMinMax(t) ==
    /\ thread[t].pc = "min_max"
    /\ LET value == thread[t].value
       IN StatsStep(t, [thread[t] EXCEPT !.pc = "avg_load"],
                    [TheStats EXCEPT
                       !.min_value = IF value < @ THEN value ELSE @,
                       !.max_value = IF value > @ THEN value ELSE @])
    /\ UNCHANGED samples

\* Lines 244-245, the right-hand side
StatsAvgLoad(t) ==
    /\ thread[t].pc = "avg_load"
    /\ LET n == Nat32(TheStats.sample_count)
           avg == TheStats.avg_value
       IN StatsStep(t,
                    [pc |-> "avg_store", value |-> thread[t].value,
                     avg |-> Frac(avg[1] * n + thread[t].value * avg[2],
                                  avg[2] * (n + 1))],
                    TheStats)
    /\ UNCHANGED samples

\* Line 244, the assignment
StatsAvgStore(t) ==
    /\ thread[t].pc = "avg_store"
    /\ StatsStep(t, [pc |-> "count_load"],
                 [TheStats EXCEPT !.avg_value = thread[t].avg])
    /\ UNCHANGED samples

\* Line 248, the read of sample_count
StatsCountLoad(t) ==
    /\ thread[t].pc = "count_load"
    /\ StatsStep(t, [pc |-> "count_store", count |-> TheStats.sample_count],
                 TheStats)
    /\ UNCHANGED samples

\* Line 248, the write of sample_count
StatsCountStore(t) ==
    /\ thread[t].pc = "count_store"
    /\ StatsStep(t, Idle, [TheStats EXCEPT !.sample_count = Inc32(thread[t].count)])
    /\ UNCHANGED samples

\* temperature_sensor_get_stats: the caller's copy of the statistics.
TemperatureSensorGetStats(t) ==
    /\ IsSome(private_data)
    /\ thread[t].pc = "idle"
    /\ StatsStep(t, [pc |-> "idle", stats |-> TheStats], TheStats)
    /\ UNCHANGED samples

\* The program constructs the sensor before it starts its threads.
StatsThreadsInit ==
    /\ private_data = None
    /\ TemperatureSensorInit(TheSensor, "TEMP001", Some(Wide), TRUE)

StatsThreadsNext ==
    \/ StatsThreadsInit
    \/ \E t \in Threads, variation \in Variations : StatsEnter(t, variation)
    \/ \E t \in Threads : StatsMinMax(t)
    \/ \E t \in Threads : StatsAvgLoad(t)
    \/ \E t \in Threads : StatsAvgStore(t)
    \/ \E t \in Threads : StatsCountLoad(t)
    \/ \E t \in Threads : StatsCountStore(t)
    \/ \E t \in Threads : TemperatureSensorGetStats(t)

StatsThreadsSpec == LoggerBoot /\ [][StatsThreadsNext]_<<vars, tvars>>

(***************************************************************************)
(* logger_log_sensor_data, and the logger driven with sensor records, with *)
(* a threshold of zero bytes and with file logging switched off on a       *)
(* running logger.  The caller's Sensor and SensorData are inputs: the     *)
(* fields the function reads, the numbers of sensor.h for type and error,  *)
(* the value in hundredths.                                                *)
(***************************************************************************)
LogSensor(id, type) == [id |-> id, type |-> type]

LogData(value, unit, is_valid, error) ==
    [value |-> value, unit |-> unit, is_valid |-> is_valid, error |-> error]

\* sizeof of the LogEntry fields (logger.h)
MessageSize == 256

SensorIdSize == 32

SensorTypeSize == 32

UnitSize == 16

ErrorSize == 64

\* strncpy(dst, s, size - 1); dst[size - 1] = '\0', and snprintf(dst, size,
\* ...): what fits in size - 1 characters.
Fitted(s, size) == IF Len(s) < size THEN s ELSE SubSeq(s, 1, size - 1)

\* printf's %.2f of a value given in hundredths
TwoDecimals(h) ==
    LET a == IF h < 0 THEN -h ELSE h
        cents == a % 100
    IN (IF h < 0 THEN "-" ELSE "") \o ToString(a \div 100) \o "."
         \o (IF cents < 10 THEN "0" ELSE "") \o ToString(cents)

\* A variant that takes the error text from sensor_error_to_string always.
sensor_data_message_plain_error(s, data) ==
    LET text == "Sensor: " \o Fitted(s.id, SensorIdSize)
                  \o ", Type: " \o Fitted(sensor_type_to_string(s.type), SensorTypeSize)
                  \o ", Value: " \o TwoDecimals(data.value)
                  \o Fitted(data.unit, UnitSize)
                  \o ", Valid: " \o (IF data.is_valid THEN "Yes" ELSE "No")
                  \o ", Error: " \o Fitted(sensor_error_to_string(data.error), ErrorSize)
        message == Fitted(text, MessageSize)
    IN Msg(message, Len(message))

\* Lines 184-208 of logger_log_sensor_data: entry.message
sensor_data_message(s, data) ==
    LET sensor_id == Fitted(s.id, SensorIdSize)
        sensor_type == Fitted(sensor_type_to_string(s.type), SensorTypeSize)
        unit == Fitted(data.unit, UnitSize)
        error == IF data.error # SENSOR_ERROR_NONE
                 THEN Fitted(sensor_error_to_string(data.error), ErrorSize)
                 ELSE Fitted("No Error", ErrorSize)
        text == "Sensor: " \o sensor_id \o ", Type: " \o sensor_type
                  \o ", Value: " \o TwoDecimals(data.value) \o unit
                  \o ", Valid: " \o (IF data.is_valid THEN "Yes" ELSE "No")
                  \o ", Error: " \o error
        message == Fitted(text, MessageSize)
    IN Msg(message, Len(message))

\* Line 180 of logger_log_sensor_data.  config.log_sensor_data is not read.
sensor_data_refused(pdo, so, do, level) ==
    \/ ~IsSome(pdo)
    \/ ~IsSome(so)
    \/ ~IsSome(do)
    \/ level < Get(pdo).config.min_level

\* logger_log_sensor_data
logger_log_sensor_data(w, so, do, level, env) ==
    IF sensor_data_refused(w.pd, so, do, level)
    THEN [w EXCEPT !.ret = FALSE]
    ELSE logger_log(w, level, Some(sensor_data_message(Get(so), Get(do))), env,
                    MaxDepth)

LoggerLogSensorData(so, do, level, env) ==
    /\ ~log_faulted
    /\ written < MaxLines
    /\ Return("logger_log_sensor_data",
              logger_log_sensor_data(World, so, do, level, env))

\* TwoFiles with the sensor-data toggle off.
NoSensorData == [TwoFiles EXCEPT !.log_sensor_data = FALSE]

\* A temperature sensor and one of a type sensor.h does not list.
TempSensor == LogSensor("TEMP001", SENSOR_TYPE_TEMPERATURE)

OddSensor == LogSensor("aux_sensor", SENSOR_TYPE_MAGNETIC + 1)

\* 23.50 C, valid; -5.25 kPa, flagged out of range.
GoodData == LogData(2350, "C", TRUE, SENSOR_ERROR_NONE)

BadData == LogData(-525, "kPa", FALSE, SENSOR_ERROR_OUT_OF_RANGE)

LoggerLogSensorDataArgs ==
    {<<Some(TempSensor), Some(GoodData), LOG_LEVEL_INFO, AllOk>>,
     <<Some(OddSensor), Some(BadData), LOG_LEVEL_ERROR, AllOk>>,
     <<Some(TempSensor), Some(BadData), LOG_LEVEL_DEBUG, AllOk>>,
     <<None, Some(GoodData), LOG_LEVEL_INFO, AllOk>>,
     <<Some(TempSensor), None, LOG_LEVEL_INFO, AllOk>>}

LoggerDataInitArgs == {TwoFiles, NoSensorData, ErrorsOnly}

LoggerDataSetConfigArgs == {ZeroSize, ConsoleOnly}

LoggerDataLogArgs ==
    {<<LOG_LEVEL_INFO, Some(LongMsg), env>> : env \in {AllOk, NoFile}}

LoggerDataNext ==
    \/ \E c \in LoggerDataInitArgs : LoggerInit(Some(c), AllOk)
    \/ \E c \in LoggerDataSetConfigArgs : LoggerSetConfig(Some(c))
    \/ \E a \in LoggerDataLogArgs : LoggerLog(a[1], a[2], a[3])
    \/ \E a \in LoggerLogSensorDataArgs :
          LoggerLogSensorData(a[1], a[2], a[3], a[4])
    \/ \E env \in {AllOk, NoFile} : LoggerRotateLogFile(env)

LoggerDataSpec == LoggerBoot /\ [][LoggerDataNext]_lvars

(***************************************************************************)
(* The logger with a max_file_size_kb whose threshold in bytes does not    *)
(* fit in 32 bits.                                                         *)
(***************************************************************************)
LoggerWrapNext ==
    \/ \E c \in {TwoFiles, WrappedSize}, env \in {AllOk, NoFile} :
          LoggerInit(Some(c), env)
    \/ \E c \in {TwoFiles, WrappedSize} : LoggerSetConfig(Some(c))
    \/ \E a \in LoggerDataLogArgs \cup {<<LOG_LEVEL_INFO, Some(MidMsg), AllOk>>} :
          LoggerLog(a[1], a[2], a[3])
    \/ \E env \in {AllOk, NoFile} : LoggerRotateLogFile(env)
    \/ \E env \in {AllOk, NoFile} : LoggerCleanup(env)

LoggerWrapSpec == LoggerBoot /\ [][LoggerWrapNext]_lvars

(***************************************************************************)
(* Two temperature sensors in one process, and the getters.  Both Sensor   *)
(* structures go through temperature_sensor_init; temperature_sensor.c     *)
(* keeps one static private_data for all of them.                          *)
(***************************************************************************)
\* What a caller's TemperatureStats and TemperatureConfig buffers hold before
\* the call: values no statistics block and no configuration of the model has.
RawStats ==
    [min_value |-> 77, max_value |-> 77, avg_value |-> <<77, 1>>,
     std_deviation |-> 77, sample_count |-> U32(77), alert_count |-> U32(77),
     critical_count |-> U32(77)]

RawConfig == Cfg(77, 77, 77, 77, 77, 77)

\* temperature_sensor_get_stats that hands out the seed values when there is
\* no private data.
temperature_sensor_get_stats_seeds(pdo, out) ==
    IF ~IsSome(out) THEN out
    ELSE IF ~IsSome(pdo) THEN Some(seed_stats)
    ELSE Some(Get(pdo).stats)

\* temperature_sensor_get_stats with a present sensor: the caller's buffer
\* afterwards.
temperature_sensor_get_stats(pdo, out) ==
    IF ~IsSome(out) \/ ~IsSome(pdo) THEN out
    ELSE Some(Get(pdo).stats)

\* temperature_sensor_get_config with a present sensor: the caller's buffer
\* afterwards.
temperature_sensor_get_config(pdo, out) ==
    IF ~IsSome(out) \/ ~IsSome(pdo) THEN out
    ELSE Some(Get(pdo).config)

GetStats(s, out) ==
    /\ ~faulted
    /\ result' = Res("temperature_sensor_get_stats", TRUE, "none",
                     IF s = NULL THEN out
                     ELSE temperature_sensor_get_stats(private_data, out))
    /\ UNCHANGED <<wall, sensor, private_data, orphaned, samples, fresh_wall,
                   faulted>>
    /\ UNCHANGED <<lvars, tvars>>

GetConfig(s, out) ==
    /\ ~faulted
    /\ result' = Res("temperature_sensor_get_config", TRUE, "none",
                     IF s = NULL THEN out
                     ELSE temperature_sensor_get_config(private_data, out))
    /\ UNCHANGED <<wall, sensor, private_data, orphaned, samples, fresh_wall,
                   faulted>>
    /\ UNCHANGED <<lvars, tvars>>

\* The reading buffer the callers of SensorsSpec pass.
TheData ==
    [type |-> INDETERMINATE, value |-> 99, is_valid |-> TRUE,
     error |-> "HARDWARE", unit |-> INDETERMINATE]

SensorsNext ==
    \/ Tick
    \/ \E s \in Sensors, c \in {Wide, Narrow} :
          TemperatureSensorInit(s, "TEMP001", Some(c), TRUE)
    \/ \E s \in Sensors, v \in {0, 1} : SensorReadData(s, Some(TheData), v)
    \/ \E s \in Sensors : TemperatureSensorCleanup(s)
    \/ \E s \in Sensors : TemperatureSensorResetStats(s)
    \/ \E s \in Sensors : TemperatureSensorSetConfig(s, Some(Narrow))
    \/ \E s \in Sensors : GetStats(s, Some(RawStats))
    \/ \E s \in Sensors : GetConfig(s, Some(RawConfig))

SensorsSpec == LoggerBoot /\ [][SensorsNext]_vars

(***************************************************************************)
(* The Sensor counters near the 32-bit limit.  A temperature sensor that   *)
(* was constructed and cleaned up refuses every read and counts it in      *)
(* sample_count and in error_count: after n such reads both hold n         *)
(* (modulo 2^32).  The runs start there, for n = 0 and for the last values *)
(* below 2^32.                                                             *)
(***************************************************************************)
\* The last MaxCount + 1 values of a uint32_t.
NearLimit == {<<Limb - 1, Limb - 1 - k>> : k \in 0 .. MaxCount}

\* The counter values at which the runs still issue reads.
CountWindow == NearLimit \cup {U32(k) : k \in 0 .. MaxCount - 1}

\* The Sensor structure after temperature_sensor_init, temperature_sensor_cleanup
\* and n refused reads.
RefusedSensor(n) ==
    [temperature_sensor_init(RawSensor(NULL), None, "TEMP001", Some(Wide),
                             TRUE).sensor
        EXCEPT !.sample_count = n, !.error_count = n,
               !.last_error = IF n = U32(0) THEN "NONE" ELSE "INVALID_PARAM"]

CountersInit ==
    /\ wall = 0
    /\ \E n \in {U32(0)} \cup NearLimit :
          sensor = [s \in Sensors |-> IF s = TheSensor THEN RefusedSensor(n)
                                      ELSE RawSensor(NULL)]
    /\ private_data = None
    /\ orphaned = FALSE
    /\ samples = <<>>
    /\ fresh_wall = -1
    /\ result = Void
    /\ faulted = FALSE
    /\ LoggerStart
    /\ OneCaller

\* sensor_read_data with a present sensor and a present buffer
CountedRead(s, data, variation) ==
    /\ ~faulted
    /\ sensor[s].inited
    /\ sensor[s].sample_count \in CountWindow
    /\ IsSome(private_data) =>
           Nat32(Get(private_data).stats.sample_count) < MaxCount
    /\ LET r == sensor_read_data(sensor[s], private_data, data, variation,
                                 current_time)
       IN /\ sensor' = [sensor EXCEPT ![s] = r.sensor]
          /\ private_data' = r.pd
          /\ samples' = IF r.branch = "fresh"
                        THEN Insert(samples, Get(r.data).value)
                        ELSE samples
          /\ fresh_wall' = IF r.branch = "fresh" THEN wall ELSE fresh_wall
          /\ faulted' = r.fault
          /\ result' = Res("sensor_read_data", r.ret, r.branch, r.data)
    /\ UNCHANGED <<wall, orphaned>>
    /\ UNCHANGED <<lvars, tvars>>

CountersNext ==
    \/ Tick
    \/ \E c \in {Wide, Narrow} :
          TemperatureSensorInit(TheSensor, "TEMP001", Some(c), TRUE)
    \/ \E v \in Variations : CountedRead(TheSensor, TheData, v)
    \/ TemperatureSensorCleanup(TheSensor)

CountersSpec == CountersInit /\ [][CountersNext]_vars

(***************************************************************************)
(* Properties.  A step of one operation is named by the operation's action *)
(* with its arguments; unprimed variables are the state before the call,   *)
(* primed ones the state after it, result' what the call handed back.      *)
(***************************************************************************)
\* min_temp < max_temp and sampling_rate_ms > 0
ValidConfig(c) == c.min_temp < c.max_temp /\ c.sampling_rate_ms > 0

\* C1: temperature_sensor_init, called with a sensor, an id and a config (and
\* memory available), succeeds when the config has min_temp < max_temp and
\* sampling_rate_ms > 0; for a config violating either condition it returns
\* failure and private_data is NULL afterwards.
C1_InitValidatesConfig ==
    [][\A a \in TemperatureSensorInitArgs :
          (/\ TemperatureSensorInit(a[1], a[2], a[3], a[4])
           /\ a[2] # NULL
           /\ IsSome(a[3]))
          => /\ (ValidConfig(Get(a[3])) /\ a[4]) => result'.ret
             /\ ~ValidConfig(Get(a[3])) =>
                    (~result'.ret /\ ~IsSome(private_data'))]_vars

\* The real time, in milliseconds, between the last fresh sample and now.
SinceFresh == (wall - fresh_wall) * 500

\* A sensor_read_data call that reaches temperature_read with a block allocated.
TemperatureReadStep(a) ==
    /\ result'.op = "sensor_read_data"
    /\ wall' = wall
    /\ IsSome(a[2])
    /\ sensor[a[1]].read = "temperature_read"
    /\ IsSome(private_data)
    /\ SensorReadData(a[1], a[2], a[3])

\* The TemperatureStats fields and the debounce timer are what they were.
StatsAndTimerUnchanged ==
    /\ IsSome(private_data')
    /\ Get(private_data').stats = Get(private_data).stats
    /\ Get(private_data').last_sample_time = Get(private_data).last_sample_time

\* C2: a read issued less than sampling_rate_ms after the last fresh sample
\* returns true with that sample's value, is_valid true and error NONE, and
\* changes neither a TemperatureStats field nor last_sample_time.
C2_DebounceWithinRate ==
    [][\A a \in SensorReadDataArgs :
          (/\ TemperatureReadStep(a)
           /\ fresh_wall >= 0
           /\ SinceFresh < Get(private_data).config.sampling_rate_ms)
          => /\ result'.ret
             /\ Get(result'.data).value = Get(private_data).last_reading
             /\ Get(result'.data).is_valid
             /\ Get(result'.data).error = "NONE"
             /\ StatsAndTimerUnchanged]_vars

\* A read step that took a fresh sample.
FreshStep(a) == result'.branch = "fresh" /\ TemperatureReadStep(a)

OutOfRange(c, v) == v < c.min_temp \/ v > c.max_temp

\* C3: when a fresh sample is outside [min_temp, max_temp], sensor_read_data
\* returns false, the reading has is_valid false and error OUT_OF_RANGE, and
\* the sensor's last_error is OUT_OF_RANGE with error_count one higher.
C3_OutOfRangeMarkedInvalid ==
    [][\A a \in SensorReadDataArgs :
          (/\ FreshStep(a)
           /\ OutOfRange(Get(private_data).config, Get(result'.data).value))
          => /\ ~result'.ret
             /\ ~Get(result'.data).is_valid
             /\ Get(result'.data).error = "OUT_OF_RANGE"
             /\ sensor'[a[1]].last_error = "OUT_OF_RANGE"
             /\ sensor'[a[1]].error_count = Inc32(sensor[a[1]].error_count)]_vars

\* C4: a fresh sample above alert_threshold and below critical_threshold adds
\* exactly one to alert_count and leaves critical_count alone; a fresh sample
\* at or above critical_threshold adds exactly one to both counters.
C4_AlertAndCriticalCounts ==
    [][\A a \in SensorReadDataArgs :
          FreshStep(a)
          => LET c == Get(private_data).config
                 v == Get(result'.data).value
                 before == Get(private_data).stats
                 after == Get(private_data').stats
             IN /\ (v > c.alert_threshold /\ v < c.critical_threshold) =>
                       /\ after.alert_count = Inc32(before.alert_count)
                       /\ after.critical_count = before.critical_count
                /\ v >= c.critical_threshold =>
                       /\ after.alert_count = Inc32(before.alert_count)
                       /\ after.critical_count = Inc32(before.critical_count)]_vars

\* C5: one fresh sample above max_temp, above alert_threshold and above
\* critical_threshold is reported out of range and also adds one to
\* alert_count and one to critical_count.
C5_ChecksIndependent ==
    [][\A a \in SensorReadDataArgs :
          LET c == Get(private_data).config
              v == Get(result'.data).value
          IN (/\ FreshStep(a)
              /\ v > c.max_temp
              /\ v > c.alert_threshold
              /\ v > c.critical_threshold)
             => /\ Get(result'.data).error = "OUT_OF_RANGE"
                /\ Get(private_data').stats.alert_count =
                       Inc32(Get(private_data).stats.alert_count)
                /\ Get(private_data').stats.critical_count =
                       Inc32(Get(private_data).stats.critical_count)]_vars

\* C6: an in-range fresh sample above alert_threshold makes sensor_read_data
\* return true with error OUT_OF_RANGE and is_valid true, and leaves the
\* sensor's error_count alone; a fresh sample outside [min_temp, max_temp]
\* makes it return false.
C6_TwoTiers ==
    [][\A a \in SensorReadDataArgs :
          FreshStep(a)
          => LET c == Get(private_data).config
                 d == Get(result'.data)
             IN /\ (~OutOfRange(c, d.value) /\ d.value > c.alert_threshold) =>
                       /\ result'.ret
                       /\ d.error = "OUT_OF_RANGE"
                       /\ d.is_valid
                       /\ sensor'[a[1]].error_count = sensor[a[1]].error_count
                /\ OutOfRange(c, d.value) => ~result'.ret]_vars

\* A warning was handed back: a fresh, in-range sample above alert_threshold.
C6_Witness ==
    /\ result.op = "sensor_read_data"
    /\ result.branch = "fresh"
    /\ IsSome(private_data)
    /\ ~OutOfRange(Get(private_data).config, Get(result.data).value)
    /\ Get(result.data).value > Get(private_data).config.alert_threshold
    /\ result.ret
    /\ Get(result.data).error = "OUT_OF_RANGE"

\* C7: after N >= 1 fresh samples since the statistics were last seeded (by
\* temperature_sensor_init or reset_stats), out-of-range samples included,
\* min_value is their minimum, max_value their maximum and sample_count is N.
C7_Extrema ==
    (IsSome(private_data) /\ Len(samples) >= 1)
    => LET stats == Get(private_data).stats
       IN /\ stats.min_value = SeqMin(samples)
          /\ stats.max_value = SeqMax(samples)
          /\ stats.sample_count = U32(Len(samples))

\* Two different samples were taken, one of them out of range.
C7_Witness ==
    /\ IsSome(private_data)
    /\ Len(samples) = 2
    /\ SeqMin(samples) < SeqMax(samples)
    /\ OutOfRange(Get(private_data).config, SeqMax(samples))
    /\ Get(private_data).stats.min_value = SeqMin(samples)
    /\ Get(private_data).stats.max_value = SeqMax(samples)

\* C8: after N >= 1 fresh samples since the statistics were last seeded,
\* avg_value is their arithmetic mean.
C8_Mean ==
    (IsSome(private_data) /\ Len(samples) >= 1)
    => Get(private_data).stats.avg_value = Frac(Sum(samples), Len(samples))

\* The mean of two samples that is neither of them.
C8_Witness ==
    /\ IsSome(private_data)
    /\ Len(samples) = 2
    /\ Get(private_data).stats.avg_value[2] = 2
    /\ Get(private_data).stats.avg_value[1] = Sum(samples)

\* A sensor_read_data call that passes argument validation: sensor, buffer
\* and read slot are all non-null.
ValidatedReadStep(a) ==
    /\ result'.op = "sensor_read_data"
    /\ wall' = wall
    /\ IsSome(a[2])
    /\ sensor[a[1]].read # NULL
    /\ SensorReadData(a[1], a[2], a[3])

\* C9: every sensor_read_data call that passes argument validation adds
\* exactly one to the sensor's sample_count and clears is_valid before the
\* read implementation runs (it stays false where the implementation sets
\* nothing); when the bound read returns false, last_error is the reading's
\* error and error_count is one higher; when it returns true, error_count is
\* unchanged and last_error is NONE.
C9_ReadBookkeeping ==
    [][\A a \in SensorReadDataArgs :
          ValidatedReadStep(a)
          => LET before == sensor[a[1]]
                 after == sensor'[a[1]]
                 d == Get(result'.data)
             IN /\ after.sample_count = Inc32(before.sample_count)
                /\ result'.branch \in {"no_private", "fault"} => ~d.is_valid
                /\ (result'.branch # "fault" /\ ~result'.ret) =>
                       /\ after.last_error = d.error
                       /\ after.error_count = Inc32(before.error_count)
                /\ (result'.branch # "fault" /\ result'.ret) =>
                       /\ after.error_count = before.error_count
                       /\ after.last_error = "NONE"]_vars

\* A read succeeded and a later one failed inside the read implementation.
C9_Witness ==
    /\ result.op = "sensor_read_data"
    /\ result.branch = "no_private"
    /\ ~result.ret
    /\ ~Get(result.data).is_valid
    /\ sensor[TheSensor].last_error = Get(result.data).error
    /\ sensor[TheSensor].sample_count = U32(2)
    /\ sensor[TheSensor].error_count = U32(1)

\* C10: sensor_read_data on a sensor with no read implementation bound (in
\* particular one that only went through sensor_init) returns false, sets
\* last_error to INVALID_PARAM and changes neither sample_count nor
\* error_count.
C10_AbsentReadRejected ==
    [][\A a \in SensorReadDataArgs :
          (/\ result'.op = "sensor_read_data"
           /\ wall' = wall
           /\ IsSome(a[2])
           /\ sensor[a[1]].read # "temperature_read"
           /\ SensorReadData(a[1], a[2], a[3]))
          => /\ ~result'.ret
             /\ sensor'[a[1]].last_error = "INVALID_PARAM"
             /\ sensor'[a[1]].sample_count = sensor[a[1]].sample_count
             /\ sensor'[a[1]].error_count = sensor[a[1]].error_count
             /\ ~faulted']_vars

\* C11: sensor_init with a sensor and an id returns true and leaves
\* sample_count = 0, error_count = 0, last_error = NONE and the default
\* initialize/cleanup bound; with a NULL id it returns false, sets last_error
\* to INVALID_PARAM and changes no other field of the sensor.
C11_SensorInitContract ==
    [][\A a \in SensorInitArgs :
          (/\ result'.op = "sensor_init"
           /\ SensorInit(a[1], a[2], a[3]))
          => LET before == sensor[a[1]]
                 after == sensor'[a[1]]
             IN /\ a[3] # NULL =>
                       /\ result'.ret
                       /\ after.type = a[2]
                       /\ after.sample_count = U32(0)
                       /\ after.error_count = U32(0)
                       /\ after.last_error = "NONE"
                       /\ after.initialize = "default_init"
                       /\ after.cleanup = "default_cleanup"
                /\ a[3] = NULL =>
                       /\ ~result'.ret
                       /\ after = [before EXCEPT !.last_error = "INVALID_PARAM"]]_vars

\* sensor_init was refused on a sensor that had already counted a failed read:
\* the counters are still there.
C11_Witness ==
    /\ result.op = "sensor_init"
    /\ ~result.ret
    /\ sensor[TheSensor].last_error = "INVALID_PARAM"
    /\ sensor[TheSensor].sample_count = U32(2)
    /\ sensor[TheSensor].error_count = U32(1)
    /\ sensor[TheSensor].cleanup = "temperature_cleanup"

\* C12: sensor cleanup is idempotent.  A temperature_sensor_cleanup call on a
\* constructed temperature sensor never faults and leaves private_data NULL;
\* it frees the block exactly when one is allocated, so a second call finds
\* nothing to free and changes nothing.
C12_CleanupIdempotent ==
    [][\A s \in SensorArgs :
          (/\ result'.op = "temperature_sensor_cleanup"
           /\ sensor[s].cleanup = "temperature_cleanup"
           /\ TemperatureSensorCleanup(s))
          => /\ ~faulted'
             /\ ~IsSome(private_data')
             /\ (result'.branch = "freed") = IsSome(private_data)
             /\ ~IsSome(private_data) =>
                    UNCHANGED <<wall, sensor, private_data, orphaned, samples,
                                fresh_wall, faulted>>]_vars

\* A cleanup call on a constructed temperature sensor whose block an earlier
\* cleanup had already freed.
C12_Witness ==
    /\ result.op = "temperature_sensor_cleanup"
    /\ result.branch = "nothing_to_free"
    /\ sensor[TheSensor].read = "temperature_read"
    /\ sensor[TheSensor].cleanup = "temperature_cleanup"
    /\ ~IsSome(private_data)
    /\ ~faulted

(***************************************************************************)
(* Properties of the logger, checked under LoggerSpec.                     *)
(***************************************************************************)
\* The step is a call of logger_cleanup.
CleanupStep ==
    /\ log_result'.op = "logger_cleanup"
    /\ \E env \in {AllOk, NoFile} : LoggerCleanup(env)

\* C13: logger_cleanup never faults and leaves the logger uninitialized with
\* no handle open: it closes the file if one is open and frees the instance,
\* and on a logger that is already clean or was never initialized it changes
\* nothing.
C13_CleanupIdempotent ==
    [][CleanupStep =>
          /\ ~log_faulted'
          /\ logger_private' = None
          /\ (logger_private = None =>
                 /\ disk' = disk
                 /\ leak' = leak
                 /\ written' = written)]_lvars

\* C14: there is at most one logger instance: no instance, and no file
\* handle of an instance, is ever left allocated or open with nothing
\* pointing to it, whatever the order of logger_init and logger_cleanup.
C14_OneActiveInstance == ~leak.instance /\ ~leak.handle

\* The step is a logger_init that asks for file logging while the log file
\* cannot be opened.
FailedOpenStep ==
    /\ log_result'.op = "logger_init"
    /\ \E c \in LogConfigs :
          /\ c.log_to_file
          /\ LoggerInit(Some(c), NoFile)

\* C15: when file logging is requested and the file cannot be opened,
\* logger_init returns false, the logger is uninitialized afterwards, nothing
\* was logged and no instance or handle has been leaked by the call.
C15_FailedOpenLeavesNothing ==
    [][FailedOpenStep =>
          /\ ~log_result'.ret
          /\ logger_private' = None
          /\ log_result'.printed = <<>>
          /\ written' = written
          /\ leak' = leak]_lvars

\* The step is a logger_log call that line 124 refuses.
RefusedLogStep ==
    /\ log_result'.op = "logger_log"
    /\ \E a \in LoggerLogArgs :
          /\ \/ logger_private = None
             \/ a[2] = None
             \/ a[1] < Get(logger_private).config.min_level
          /\ LoggerLog(a[1], a[2], a[3])

\* The step is a logger_init, logger_cleanup or logger_rotate_log_file that
\* ends with a configuration whose min_level is above the INFO level of the
\* logger's own notices.
QuietNoticeStep ==
    /\ log_result'.op \in {"logger_init", "logger_cleanup", "logger_rotate_log_file"}
    /\ \/ \E env \in {AllOk, NoFile} : LoggerInit(Some(ErrorsOnly), env)
       \/ /\ logger_private # None
          /\ Get(logger_private).config.min_level > LOG_LEVEL_INFO
          /\ \E env \in {AllOk, NoFile} :
                LoggerCleanup(env) \/ LoggerRotateLogFile(env)

\* C16: logger_log on an uninitialized logger, with an absent message or with
\* a level below config.min_level returns false and does nothing: no line on
\* the console or in a file, the instance and its size counter unchanged, no
\* rotation.  The logger's own notices pass the same test: under a min_level
\* above INFO they reach neither the console nor a file.
C16_RefusedLogIsNoOp ==
    [][/\ RefusedLogStep =>
             /\ ~log_result'.ret
             /\ log_result'.printed = <<>>
             /\ log_result'.rotations = 0
             /\ disk' = disk
             /\ written' = written
             /\ logger_private' = logger_private
       /\ QuietNoticeStep =>
             /\ log_result'.printed = <<>>
             /\ written' = written]_lvars

\* A logger_log call was refused on an initialized logger, and a logger_init
\* kept its notice back.
C16_Witness ==
    /\ log_result.op = "logger_log"
    /\ ~log_result.ret
    /\ logger_private # None
    /\ Get(logger_private).config.min_level = LOG_LEVEL_ERROR
    /\ Get(logger_private).log_file # NULL
    /\ Get(logger_private).current_file_size = 0

\* The step is a logger_log call that reaches the file, with the fprintf
\* of line 164 failing.
FailedWriteStep ==
    /\ log_result'.op = "logger_log"
    /\ logger_private # None
    /\ Get(logger_private).config.log_to_file
    /\ Get(logger_private).log_file # NULL
    /\ Get(logger_private).config.min_level <= LOG_LEVEL_INFO
    /\ LoggerLog(LOG_LEVEL_INFO, Some(LongMsg), WriteFails)

\* C17: a logger_log call whose write to the file fails returns false and
\* leaves the size counter as it was: only lines that reached the file are
\* counted.
C17_FailedWriteNotCounted ==
    [][FailedWriteStep =>
          /\ ~log_result'.ret
          /\ logger_private' # None
          /\ Get(logger_private').current_file_size =
                Get(logger_private).current_file_size]_lvars

\* logger_log(level, msg) is accepted, goes to the open file, and brings the
\* size counter to the rotation threshold.
Triggers(level, msg) ==
    /\ logger_private # None
    /\ LET inst == Get(logger_private)
       IN /\ level >= inst.config.min_level
          /\ inst.config.log_to_file
          /\ inst.log_file # NULL
          /\ inst.current_file_size
                + formatted_message(inst.config, level, msg).bytes
                >= inst.config.max_file_size_kb * KB

\* C18: a logger_log call that brings the size counter to
\* max_file_size_kb * 1024 runs exactly one rotation, after its line is
\* written: the line is the last one of the rotated file "<path>.1", and the
\* base file is a fresh one holding nothing but the rotation notice, ready
\* for the next line.
C18_RotationAfterTriggeringLine ==
    [][\A a \in LoggerLogArgs :
          (/\ log_result'.op = "logger_log"
           /\ a[2] # None
           /\ a[3] = AllOk
           /\ Triggers(a[1], Get(a[2]))
           /\ LoggerLog(a[1], a[2], a[3]))
          => LET line == formatted_message(Get(logger_private).config,
                                           a[1], Get(a[2]))
             IN /\ log_result'.ret
                /\ log_result'.rotations = 1
                /\ IsSome(disk'[1])
                /\ Get(disk'[1]) # <<>>
                /\ Get(disk'[1])[Len(Get(disk'[1]))] = line
                /\ IsSome(disk'[0])
                /\ \A k \in 1 .. Len(Get(disk'[0])) :
                      Get(disk'[0])[k].text = RotateNotice.text]_lvars

\* The step is one rotation, asked for by the caller or started by a line
\* that reached the threshold.
RotationStep ==
    /\ log_result'.rotations = 1
    /\ logger_private # None
    /\ \/ \E env \in {AllOk, NoFile} : LoggerRotateLogFile(env)
       \/ \E a \in LoggerLogArgs : LoggerLog(a[1], a[2], a[3])

\* The numbered files.
Rotated(d) == Files(d) \ {0}

\* The highest of a non-empty set of indexes.
Highest(S) == CHOOSE i \in S : \A j \in S : j <= i

\* C19: a rotation under max_files = M that starts with no file numbered
\* above M ends with none either, so the base file and the rotated files are
\* never more than M + 1; and when the rotated files are those that
\* rotations under M have left (numbered below M), the only one whose content
\* the rotation may drop is the oldest, the one with the highest number: the
\* others are found one number up.
C19_FileCountBounded ==
    [][LET M == Get(logger_private).config.max_files
       IN (RotationStep /\ Files(disk) \subseteq 0 .. M)
          => /\ Files(disk') \subseteq 0 .. M
             /\ Cardinality(Files(disk')) <= M + 1
             /\ Rotated(disk) \subseteq 1 .. M - 1
                => \A i \in Rotated(disk) :
                      i # Highest(Rotated(disk)) => disk'[i + 1] = disk[i]]_lvars

\* Two rotations under max_files = 2: the second one has dropped the first
\* rotated file, which held the init notice.
C19_Witness ==
    /\ log_result.rotations = 1
    /\ logger_private # None
    /\ Get(logger_private).config.max_files = 2
    /\ ~leak.instance
    /\ Files(disk) = {0, 1}
    /\ Get(disk[1]) # <<>>
    /\ Get(disk[1])[1].text = RotateNotice.text

\* C20: a rotation under max_files = M moves the content of every file
\* numbered 0 (the base file) to M - 1 one number up, so that only the
\* content that was in "<path>.M" is deleted and the M most recent
\* rotated-out files stay as .1 to .M.
C20_RotationShiftsEveryFile ==
    [][LET M == Get(logger_private).config.max_files
       IN (RotationStep /\ Files(disk) \subseteq 0 .. M)
          => \A i \in 0 .. M - 1 :
                IsSome(disk[i]) => disk'[i + 1] = disk[i]]_lvars

\* C21: a logger_init, on a clean logger, that opens a log file already
\* holding S bytes starts the size counter at S bytes: after its init notice
\* the counter is S plus the notice's bytes, and the notice starts a rotation
\* exactly when that sum reaches max_file_size_kb * 1024.
C21_CounterStartsAtFileSize ==
    [][\A c \in LogConfigs :
          (/\ log_result'.op = "logger_init"
           /\ logger_private = None
           /\ c.log_to_file
           /\ IsSome(disk[0])
           /\ LoggerInit(Some(c), AllOk))
          => LET S == Bytes(Get(disk[0]))
                 n == IF LOG_LEVEL_INFO >= c.min_level
                      THEN formatted_message(c, LOG_LEVEL_INFO, InitNotice).bytes
                      ELSE 0
             IN IF n > 0 /\ S + n >= c.max_file_size_kb * KB
                THEN log_result'.rotations = 1
                ELSE /\ log_result'.rotations = 0
                     /\ Get(logger_private').current_file_size = S + n]_lvars

(***************************************************************************)
(* Properties of the logger under concurrent callers, checked under        *)
(* LoggerThreadsSpec.                                                      *)
(***************************************************************************)
\* No thread is inside logger_log.
AllIdle == \A t \in Threads : IdleThread(t)

\* C22: whatever the interleaving of logger_log calls (no other logger
\* function has been called since logger_init), once the calls are over the
\* size counter is the sum of the bytes of the lines that are in the base
\* file, the lines written since the last rotation: no update of the counter
\* is lost.
C22_NoLostUpdate ==
    (AllIdle /\ ~log_faulted /\ logger_private # None
        /\ log_result.op = "logger_init"
        /\ Get(logger_private).log_file # NULL)
    => /\ IsSome(disk[0])
       /\ Get(logger_private).current_file_size = Bytes(Get(disk[0]))

\* A thread has written its line and not yet counted its bytes.
MidUpdate(t) == thread[t].pc \in {"size_load", "size_store"}

\* The step runs a rotation.
RotationRuns ==
    \/ ThreadsRotate /\ log_result'.rotations = 1
    \/ \E t \in Threads : LogSizeTest(t) /\ disk' # disk

\* C23: in no interleaving does a thread inside logger_log use an instance
\* that logger_cleanup has freed or a file that has been closed, and no
\* rotation runs while a thread is between the write of its line and the
\* update of the size counter.
C23_AtomicRotationAndCleanup ==
    [][/\ ~log_faulted'
       /\ RotationRuns => \A t \in Threads : ~MidUpdate(t)]_<<lvars, tvars>>

(***************************************************************************)
(* Properties of the string conversions, checked under ConvSpec.           *)
(***************************************************************************)
\* The conversion fn, over the name table names of an enumeration whose
\* last member is last, gave the argument's name if the argument is a member
\* of the enumeration and the sentinel unknown otherwise.
Total(fn, names, last, unknown) ==
    conv.fn = fn =>
        IF conv.arg \in 0 .. last
        THEN /\ conv.arg + 1 \in DOMAIN names
             /\ conv.out = names[conv.arg + 1]
             /\ conv.out # unknown
        ELSE conv.out = unknown

\* C27: sensor_error_to_string, sensor_type_to_string and
\* logger_level_to_string are total: a member of the enumeration gives its
\* name from the table, every other value, above the last member or
\* negative, gives the sentinel string, and the table is never read outside
\* its bounds.
C27_ConversionsTotal ==
    /\ conv.out # PastTheEnd
    /\ Total("sensor_error_to_string", error_messages,
             SENSOR_ERROR_CALIBRATION, "Unknown error")
    /\ Total("sensor_type_to_string", sensor_type_strings,
             SENSOR_TYPE_MAGNETIC, "Unknown sensor type")
    /\ Total("logger_level_to_string", level_strings,
             LOG_LEVEL_CRITICAL, "UNKNOWN")

\* The value just above the last SensorError has been converted.
C27_Witness ==
    /\ conv.fn = "sensor_error_to_string"
    /\ conv.arg = SENSOR_ERROR_CALIBRATION + 1
    /\ conv.out = "Unknown error"

(***************************************************************************)
(* Further properties of the sensor, checked under Spec.                   *)
(***************************************************************************)
\* C25: whenever a temperature sensor is constructed, its active config has
\* min_temp < max_temp and sampling_rate_ms > 0, whatever calls of
\* temperature_sensor_init and temperature_sensor_set_config led there.
C25_ActiveConfigValid ==
    IsSome(private_data) => ValidConfig(Get(private_data).config)

(***************************************************************************)
(* Properties of the sensor under concurrent callers, checked under        *)
(* StatsThreadsSpec.                                                       *)
(***************************************************************************)
\* The statistics s are those of some k of the fresh samples taken so far:
\* the count is k and the mean is the mean of k of them.
Consistent(s) ==
    LET k == Nat32(s.sample_count)
    IN IF k = 0 THEN s.avg_value = <<0, 1>>
       ELSE \E S \in SUBSET DOMAIN samples :
               /\ Cardinality(S) = k
               /\ \E f \in [1 .. k -> S] :
                     /\ \A i, j \in 1 .. k : i # j => f[i] # f[j]
                     /\ s.avg_value = Frac(Sum([i \in 1 .. k |-> samples[f[i]]]), k)

\* C26: with several threads on one temperature sensor, a copy handed out by
\* temperature_sensor_get_stats is never half updated (its mean goes with
\* its sample count), and once no thread is inside update_stats sample_count
\* is the number of fresh samples taken.
C26_StatsSnapshotConsistent ==
    /\ \A t \in Threads :
          (thread[t].pc = "idle" /\ "stats" \in DOMAIN thread[t])
          => Consistent(thread[t].stats)
    /\ (IsSome(private_data) /\ \A t \in Threads : thread[t].pc = "idle")
       => Nat32(Get(private_data).stats.sample_count) = Len(samples)

(***************************************************************************)
(* Properties of the logger with sensor records, a zero threshold and file *)
(* logging switched off while running, checked under LoggerDataSpec.       *)
(***************************************************************************)
\* What the one rotation of a call left, when the counter was size before
\* the rotation and the operating system answered env; in_file says whether
\* the rotation notice is expected in the new file.
AfterRotation(size, env, in_file) ==
    LET config == Get(logger_private).config
        notice == formatted_message(config, LOG_LEVEL_INFO, RotateNotice)
        inst == Get(logger_private')
    IN /\ logger_private' # None
       /\ IF env.fopen_ok
          THEN /\ inst.log_file # NULL
               /\ IsSome(disk'[0])
               /\ IF in_file
                  THEN /\ inst.current_file_size = notice.bytes
                       /\ env.write_ok => Get(disk'[0]) = <<notice>>
                  ELSE /\ inst.current_file_size = 0
                       /\ Get(disk'[0]) = <<>>
          ELSE /\ inst.log_file = NULL
               /\ inst.current_file_size = size
               /\ ~IsSome(disk'[0])

\* A logger_rotate_log_file or logger_log call that ran one rotation left
\* what AfterRotation describes.
OneRotation(in_file) ==
    /\ \A env \in {AllOk, NoFile} :
          (/\ log_result'.op = "logger_rotate_log_file"
           /\ log_result'.rotations = 1
           /\ LoggerRotateLogFile(env))
          => AfterRotation(Get(logger_private).current_file_size, env, in_file)
    /\ \A a \in LoggerLogArgs :
          (/\ log_result'.op = "logger_log"
           /\ log_result'.rotations = 1
           /\ LoggerLog(a[1], a[2], a[3]))
          => AfterRotation(
                 Get(logger_private).current_file_size
                     + formatted_message(Get(logger_private).config,
                                         a[1], Get(a[2])).bytes,
                 a[3], in_file)

\* C28 as stated: after a call that ran one rotation the base file is a
\* fresh one and the size counter was reset before the rotation notice:
\* whenever INFO passes min_level the notice is the first line of the file
\* and the counter is the notice's bytes.  When the base file could not be
\* reopened the counter is not reset and the logger holds no file handle.
C28_NoticeWheneverInfoPasses ==
    [][OneRotation(LOG_LEVEL_INFO >= Get(logger_private).config.min_level)]_lvars

\* C28, amended: the notice is the first line of the fresh file, and the
\* counter its bytes, when INFO passes min_level and log_to_file is on; with
\* log_to_file off (set_config on a running logger) or INFO below min_level
\* the fresh file is empty and the counter zero.  When the base file could
\* not be reopened the counter is not reset and no file handle is held.
C28_FreshFileAfterRotation ==
    [][OneRotation(/\ LOG_LEVEL_INFO >= Get(logger_private).config.min_level
                   /\ Get(logger_private).config.log_to_file)]_lvars

\* A line that reached the threshold has started a rotation, and the new
\* base file holds the rotation notice and nothing else.
C28_Witness ==
    /\ log_result.op = "logger_log"
    /\ log_result.rotations = 1
    /\ logger_private # None
    /\ Get(logger_private).log_file # NULL
    /\ Get(logger_private).current_file_size = 24
    /\ IsSome(disk[0])
    /\ Len(Get(disk[0])) = 1
    /\ Get(disk[0])[1].text = RotateNotice.text

\* C24: every logger_log and logger_rotate_log_file call comes to an end for
\* every configuration, a threshold of zero bytes included: the rotation
\* notice does not start a further rotation whose notice starts another,
\* and so on until the stack is used up.
C24_CallsTerminate ==
    [][log_result'.op \in {"logger_log", "logger_rotate_log_file"}
          => /\ ~log_faulted'
             /\ log_result'.rotations <= 1]_lvars

\* The message logger_log_sensor_data hands to logger_log holds part.
Embeds(text, part) ==
    \E i \in 1 .. Len(text) - Len(part) + 1 :
        SubSeq(text, i, i + Len(part) - 1) = part

\* m holds the sensor's id and type, the value, the unit, the validity and
\* the error text of the reading, "No Error" when it has no error.
EmbedsRecord(m, s, data) ==
    /\ m.len = Len(m.text)
    /\ Embeds(m.text, "Sensor: " \o s.id \o ",")
    /\ Embeds(m.text, "Type: " \o sensor_type_to_string(s.type) \o ",")
    /\ Embeds(m.text, "Value: " \o TwoDecimals(data.value) \o data.unit \o ",")
    /\ Embeds(m.text, "Valid: " \o (IF data.is_valid THEN "Yes" ELSE "No") \o ",")
    /\ Embeds(m.text, "Error: " \o (IF data.error = SENSOR_ERROR_NONE
                                   THEN "No Error"
                                   ELSE error_messages[data.error + 1]))

C30_ToggleOffWritesNoRecord ==
    [][\A a \in LoggerLogSensorDataArgs :
          (/\ log_result'.op = "logger_log_sensor_data"
           /\ logger_private # None
           /\ ~Get(logger_private).config.log_sensor_data
           /\ LoggerLogSensorData(a[1], a[2], a[3], a[4]))
          => /\ log_result'.printed = <<>>
             /\ disk' = disk]_lvars

(***************************************************************************)
(* Properties of the temperature sensors, checked under SensorsSpec.       *)
(***************************************************************************)
\* A temperature_sensor_reset_stats call on a present sensor.
ResetStatsStep ==
    /\ result' = Void
    /\ wall' = wall
    /\ \E s \in Sensors : TemperatureSensorResetStats(s)

\* A sensor_read_data call that took a fresh sample.
FreshReadStep ==
    /\ result'.op = "sensor_read_data"
    /\ result'.branch = "fresh"

\* C31: temperature_sensor_reset_stats puts the statistics back to what
\* construction made them (min FLT_MAX, max -FLT_MAX, average 0, every count
\* 0) and changes nothing else: config, cached reading, debounce timer and
\* the Sensor structures stay as they were.  While the private data lives,
\* any other change of the statistics is the work of a fresh read.
C31_ResetStatsFrame ==
    [][/\ (IsSome(private_data) /\ ResetStatsStep)
          => /\ IsSome(private_data')
             /\ LET old == Get(private_data)
                    new == Get(private_data')
                IN /\ new.stats.min_value = FLT_MAX
                   /\ new.stats.max_value = -FLT_MAX
                   /\ new.stats.avg_value = <<0, 1>>
                   /\ Nat32(new.stats.sample_count) = 0
                   /\ Nat32(new.stats.alert_count) = 0
                   /\ Nat32(new.stats.critical_count) = 0
                   /\ new.config = old.config
                   /\ new.last_reading = old.last_reading
                   /\ new.last_sample_time = old.last_sample_time
             /\ sensor' = sensor
       /\ (~IsSome(private_data) /\ ResetStatsStep)
          => UNCHANGED <<private_data, sensor>>
       /\ (/\ IsSome(private_data)
           /\ IsSome(private_data')
           /\ Get(private_data').stats # Get(private_data).stats)
          => \/ FreshReadStep
             \/ ResetStatsStep
             \/ result'.op = "temperature_sensor_init"]_vars

\* The statistics are back at their seed values after a fresh sample: the
\* debounce timer and the cached reading still tell of the sample, and the
\* sensor's own sample_count still counts the read.
C31_Witness ==
    /\ result = Void
    /\ IsSome(private_data)
    /\ Get(private_data).stats = seed_stats
    /\ samples = <<>>
    /\ Get(private_data).last_sample_time # U32(0)
    /\ Get(private_data).last_reading # 0
    /\ \E s \in Sensors : Nat32(sensor[s].sample_count) > 0

\* The temperature sensor s was constructed and its private data has been
\* released since.
CleanedUp(s) ==
    /\ sensor[s].read = "temperature_read"
    /\ private_data = None

\* C34: a read on a temperature sensor after its cleanup does not fault:
\* sensor_read_data returns false, the reading's error and last_error are
\* InvalidParam, sample_count and error_count go up by one each; get_stats,
\* get_config, reset_stats and set_config do nothing and leave the caller's
\* buffer as it was.
C34_AfterCleanup ==
    [][\A s \in Sensors :
          CleanedUp(s) =>
             /\ \A v \in {0, 1} :
                   (/\ result'.op = "sensor_read_data"
                    /\ SensorReadData(s, Some(TheData), v))
                   => /\ ~faulted'
                      /\ ~result'.ret
                      /\ Get(result'.data).error = "INVALID_PARAM"
                      /\ ~Get(result'.data).is_valid
                      /\ sensor'[s].last_error = "INVALID_PARAM"
                      /\ sensor'[s].sample_count = Inc32(sensor[s].sample_count)
                      /\ sensor'[s].error_count = Inc32(sensor[s].error_count)
                      /\ private_data' = None
             /\ (/\ result'.op = "temperature_sensor_get_stats"
                 /\ GetStats(s, Some(RawStats)))
                => /\ result'.data = Some(RawStats)
                   /\ UNCHANGED <<private_data, sensor>>
             /\ (/\ result'.op = "temperature_sensor_get_config"
                 /\ GetConfig(s, Some(RawConfig)))
                => /\ result'.data = Some(RawConfig)
                   /\ UNCHANGED <<private_data, sensor>>
             /\ (/\ result' = Void
                 /\ \/ TemperatureSensorResetStats(s)
                    \/ TemperatureSensorSetConfig(s, Some(Narrow)))
                => UNCHANGED <<private_data, sensor, samples>>]_vars

\* A read on a cleaned-up sensor has been refused and counted as an error.
C34_Witness ==
    /\ result.op = "sensor_read_data"
    /\ result.branch = "no_private"
    /\ ~result.ret
    /\ ~faulted
    /\ \E s \in Sensors :
          /\ CleanedUp(s)
          /\ sensor[s].last_error = "INVALID_PARAM"
          /\ Nat32(sensor[s].error_count) > 0

\* C33: each temperature sensor owns its private state.  When a second
\* sensor is constructed while the first one's private data lives, the
\* first one's block stays where it was, reachable, with its config,
\* statistics and debounce timer untouched.
C33_SensorsOwnTheirState ==
    [][\A s \in Sensors, o \in Sensors :
          (/\ result'.op = "temperature_sensor_init"
           /\ result'.ret
           /\ s # o
           /\ sensor[o].read = "temperature_read"
           /\ sensor[s].read # "temperature_read"
           /\ IsSome(private_data)
           /\ ~orphaned
           /\ \E c \in {Wide, Narrow} :
                 TemperatureSensorInit(s, "TEMP001", Some(c), TRUE))
          => /\ ~orphaned'
             /\ private_data' = private_data]_vars

(***************************************************************************)
(* Further properties of one temperature sensor, checked under Spec.       *)
(***************************************************************************)
\* C35: sensor_read_data on a temperature sensor that has taken a sample
\* never returns true with is_valid true and error NONE for a value outside
\* [min_temp, max_temp] of its configuration, also when the read is debounced
\* and repeats an earlier sample that was out of range.
C35_NoCleanOutOfRangeReading ==
    [][\A a \in SensorReadDataArgs :
          (/\ TemperatureReadStep(a)
           /\ fresh_wall >= 0
           /\ OutOfRange(Get(private_data).config, Get(result'.data).value))
          => ~(/\ result'.ret
               /\ Get(result'.data).is_valid
               /\ Get(result'.data).error = "NONE")]_vars

\* C38: the first read after temperature_sensor_init takes a fresh sample
\* (stats.sample_count becomes 1) and is not debounced, at every wall-clock
\* time and for every sampling_rate_ms > 0.
C38_FirstReadIsFresh ==
    [][\A a \in SensorReadDataArgs :
          (/\ TemperatureReadStep(a)
           /\ fresh_wall = -1
           /\ Get(private_data).last_sample_time = U32(0)
           /\ Nat32(Get(private_data).stats.sample_count) = 0
           /\ Get(private_data).config.sampling_rate_ms > 0)
          => /\ result'.branch = "fresh"
             /\ IsSome(private_data')
             /\ Nat32(Get(private_data').stats.sample_count) = 1]_vars

(***************************************************************************)
(* The Sensor counters, checked under CountersSpec.                        *)
(***************************************************************************)
\* C32: across a read call on a constructed sensor neither sample_count nor
\* error_count decreases, at the 32-bit limit as anywhere else, and
\* error_count is at most sample_count afterwards.
C32_CountersMonotonic ==
    [][\A v \in Variations :
          (/\ result'.op = "sensor_read_data"
           /\ CountedRead(TheSensor, TheData, v))
          => LET old == sensor[TheSensor]
                 new == sensor'[TheSensor]
             IN /\ ~Lt32(new.sample_count, old.sample_count)
                /\ ~Lt32(new.error_count, old.error_count)
                /\ ~Lt32(new.sample_count, new.error_count)]_vars

(***************************************************************************)
(* Further properties of the logger's file handle, checked under           *)
(* LoggerSpec.                                                             *)
(***************************************************************************)
\* C36: logger_cleanup on a logger with an open file closes the handles the
\* logger opened, each once, and hands no absent handle to fclose, also when
\* the shutdown notice reaches the threshold and starts a rotation, whether
\* the rotation reopens the file or not: the call does not fault, and no
\* open handle is left behind that nothing points to.
C36_CleanupClosesEachHandleOnce ==
    [][(/\ log_result'.op = "logger_cleanup"
        /\ logger_private # None
        /\ Get(logger_private).log_file # NULL
        /\ \E env \in {AllOk, NoFile} : LoggerCleanup(env))
       => /\ ~log_faulted'
          /\ leak'.handle = leak.handle]_lvars

\* C37: whenever the logger is initialized with config.log_to_file on, it
\* holds an open handle on config.log_file, so every accepted line reaches
\* the file; logger_set_config and rotations keep it so.
C37_FileLoggingHasAHandle ==
    (/\ ~log_faulted
     /\ logger_private # None
     /\ Get(logger_private).config.log_to_file)
    => Get(logger_private).log_file # NULL

(***************************************************************************)
(* The rotation threshold, checked under LoggerWrapSpec.                   *)
(***************************************************************************)
\* C39: for every max_file_size_kb a logger_log call that writes a line to
\* the file rotates exactly when the size counter, with the line counted,
\* has reached max_file_size_kb times 1024 as numbers, not modulo 2^32.
\* (The counter is compared in whole kilobytes: it has reached kb * 1024
\* exactly when its whole kilobytes have reached kb.)
C39_ThresholdIsTheProduct ==
    [][\A a \in LoggerDataLogArgs :
          (/\ log_result'.op = "logger_log"
           /\ logger_private # None
           /\ Get(logger_private).config.log_to_file
           /\ Get(logger_private).log_file # NULL
           /\ a[1] >= Get(logger_private).config.min_level
           /\ LoggerLog(a[1], a[2], a[3]))
          => LET inst == Get(logger_private)
                 size == inst.current_file_size
                           + formatted_message(inst.config, a[1], Get(a[2])).bytes
             IN (log_result'.rotations > 0)
                   <=> (size \div KB >= inst.config.max_file_size_kb)]_lvars

=============================================================================
